---- MODULE Spec2Model ----
(***************************************************************************)
(* cc-top: the in-memory session state store (package state, MemoryStore). *)
(*                                                                         *)
(* Numbers.  Metric values and total_cost are float64 in the source; the   *)
(* model keeps them as integers counting HALVES (2 stands for 1.0, 1 for   *)
(* 0.5, -2 for -1.0), so that int64(delta) truncates something.            *)
(* total_tokens counts whole tokens.  active_time counts half seconds:     *)
(* delta * float64(time.Second) is integral for every multiple of 0.5, so  *)
(* the conversion to time.Duration loses nothing on these values.          *)
(* Times are integers; 0 is the zero time.Time.                            *)
(*                                                                         *)
(* Go maps are reference values: the model keeps every map in `heap` and   *)
(* stores references (indices into heap; 0 is the nil map), so that two    *)
(* holders of one map see each other's writes.  Slices are copied by       *)
(* make+copy wherever the source copies them and are modelled as values.   *)
(***************************************************************************)
EXTENDS Integers, Sequences, FiniteSets, TLC

VARIABLES
    sessions,        \* ms.sessions: session id -> SessionData
    heap,            \* every Go map in play: reference -> contents
    eventListeners,  \* ms.eventListeners
    mu,              \* ms.mu: "free", or the goroutine holding the write lock
    pc,              \* per goroutine: where it is in its current call
    call,            \* per goroutine: the call in progress
    delivered,       \* per listener: the callbacks it has received, in order
    snap,            \* the snapshot GetSession last returned to the reader
    now,             \* the wall clock read by time.Now()
    issued           \* the calls made so far, in the order they started

\* Package alerts: the Engine, its rules' private state, and what it emits.
VARIABLES
    alerts,          \* e.alerts: the active list
    lastFired,       \* e.lastFired: alert key -> last fire time
    notifier,        \* whether e.notifier is set (WithNotifier)
    notified,        \* the alerts handed to e.notifier.Notify, in order
    cancel,          \* e.cancel: "nil" until Start stores the CancelFunc
    ctxDone,         \* the evaluator's context is cancelled
    done,            \* e.done is closed
    evaluator,       \* the goroutine Start launches: where it is
    stop,            \* per caller of Stop: where it is in the call
    evalLog,         \* one record per run of evaluate: its inputs and results
    exceededSince,   \* runawayTokensRule.exceededSince
    failures,        \* loopDetectorRule.failures: session -> hash -> timestamps
    lastProcessed,   \* loopDetectorRule.lastProcessed
    warnedModels,    \* contextPressureRule.warnedModels
    warnLog          \* the lines written by log.Printf, in order

alertVars == <<alerts, lastFired, notifier, notified, cancel, ctxDone, done, evaluator,
               stop, evalLog, exceededSince, failures, lastProcessed, warnedModels, warnLog>>

\* Package scanner: the Scanner and the processes of the machine.
VARIABLES
    api,             \* the PIDs of the live processes, as the OS has them
    current,         \* s.current: PID -> ProcessInfo
    seen,            \* s.seen
    exited,          \* s.exited: PID -> ProcessInfo
    scanPc,          \* per goroutine in Scan: where it is
    discovered,      \* per goroutine in Scan: its local map `discovered`
    listed,          \* per goroutine in Scan: the PIDs whose GetProcessInfo succeeded
    scanLog,         \* one record per finished Scan: what it saw and returned
    enumLog          \* one record per ListAllPIDs that succeeded, in the order of the calls

scanVars == <<api, current, seen, exited, scanPc, discovered, listed, scanLog, enumLog>>

\* main and the goroutines it starts.
VARIABLES
    topDone,         \* main's ctx is cancelled
    grpc,            \* the gRPC server: "none", "serving" or "stopped"
    http,            \* the HTTP server: "none", "serving" or "stopped"
    scanLoop,        \* the goroutine of StartPeriodicScan: "none", "running" or "exited"
    stopCh           \* s.stopCh is closed

mainVars == <<topDone, grpc, http, scanLoop, stopCh>>

\* Package tui: the Bubble Tea model and the processes it signals.
VARIABLES
    tuiModel,        \* the Model value Update returned last
    procState,       \* per session process: "running", "paused" or "terminated"
    sigLog,          \* the signals sent, in order: <<signal, pid>>
    lastKey,         \* the key of the last KeyMsg
    feed             \* what the event and alert providers hold: one session id per entry

tuiVars == <<tuiModel, procState, sigLog, lastKey, feed>>

\* Package receiver: the requests being handled and the answers given.
VARIABLES
    handling,        \* per handler goroutine: its request and the store calls it makes
    respLog          \* one record per answered request

recvVars == <<handling, respLog>>

\* What the startup path computed last, and evaluate as its callers run it.
VARIABLES
    classified,      \* the last call of ClassifyTelemetry: its arguments and its result
    loaded,          \* the last call of LoadFromString: its document and its result
    evalPc,          \* per caller of Engine.evaluate: where it is in the call
    evalLocal        \* per caller of Engine.evaluate: its locals

statusVars == <<classified>>
cfgVars == <<loaded>>
evalVars == <<evalPc, evalLocal>>

\* Starting and stopping more than once.
VARIABLES
    earlier,         \* the evaluator goroutines of the Starts before the last: context and position
    panics,          \* the run-time panics raised, in order
    scanStop         \* per caller of Scanner.Stop: where it is in the call

lifeVars == <<earlier, panics, scanStop>>

VARIABLES
    inUse,           \* the TCP ports another process listens on
    startLog         \* one record per call of Receiver.Start: the error it returned ("" for nil)

bindVars == <<inUse, startLog>>
moreVars == <<statusVars, cfgVars, evalVars, lifeVars, bindVars>>

vars == <<sessions, heap, eventListeners, mu, pc, call, delivered, snap, now, issued,
          alertVars, scanVars, mainVars, tuiVars, recvVars, moreVars>>

\* ------------------------------------------------------------------ data

UnknownSessionID == "unknown"

CostUsage == "claude_code.cost.usage"
TokenUsage == "claude_code.token.usage"
ActiveTimeTotal == "claude_code.active_time.total"
SessionCount == "claude_code.session.count"
ApiRequest == "claude_code.api_request"
UserPrompt == "claude_code.user_prompt"

Writers == {"w1", "w2"}

\* The two places of main that call alertEngine.Stop().
StopCallers == {"shutdown", "signal"}

\* close(s.stopCh) panics when the channel is closed already.
CloseOfClosedChannel == "close of closed channel"

\* The goroutines that call Scan: the periodic one and the TUI's rescan.
Scanners == {"periodic", "rescan"}
Listeners == {"l1", "l2"}

\* The PIDs of the sessions the kill switch can aim at.
KillPids == {4821, 7001}

\* The goroutines that run Engine.evaluate: the one Start launches and a
\* caller of EvaluateNow or EvaluateAt.
Evaluators == {"ticker", "caller"}

\* NewModel: the startup view, nothing open; main passes no other start view.
NewModel ==
    [view |-> "startup", panelFocus |-> "sessions", detailOverlay |-> FALSE,
     filterMenuActive |-> FALSE, killConfirm |-> FALSE, killTargetPID |-> 0,
     quitting |-> FALSE, sessionCursor |-> 0, selectedSession |-> "",
     eventCursor |-> 0, alertCursor |-> 0, detailScrollPos |-> 0]

EmptyMap == [k \in {} |-> ""]

MapPut(m, k, v) == [x \in (DOMAIN m) \cup {k} |-> IF x = k THEN v ELSE m[x]]

\* The contents of the map behind a reference; the nil map reads as empty.
Deref(hp, ref) == IF ref = 0 THEN EmptyMap ELSE hp[ref]

Nil == [nil |-> TRUE]

IdleCall == [op |-> "none"]

\* ------------------------------------------------------------------ helpers

resolveSessionID(sessionID) ==
    IF sessionID = "" THEN UnknownSessionID ELSE sessionID

\* &SessionData{SessionID, StartedAt: time.Now(), PreviousValues: make(map)}
NewSession(sessionID, t, pvRef) ==
    [ SessionID |-> sessionID, PID |-> 0, StartedAt |-> t, LastEventAt |-> 0,
      Exited |-> FALSE, Model |-> "", Terminal |-> "",
      TotalCost |-> 0, TotalTokens |-> 0, ActiveTime |-> 0,
      Metrics |-> <<>>, Events |-> <<>>, PreviousValues |-> pvRef ]

\* A seeded bug: the bucket is rebuilt on every call.
getOrCreateSession_Recreate(ss, hp, sessionID, t) ==
    [ ss |-> [x \in (DOMAIN ss) \cup {sessionID} |->
                IF x = sessionID THEN NewSession(sessionID, t, Len(hp) + 1) ELSE ss[x]],
      hp |-> Append(hp, EmptyMap) ]

\* Returns the store's session map and the heap after the call.
getOrCreateSession(ss, hp, sessionID, t) ==
    IF sessionID \in DOMAIN ss
    THEN [ss |-> ss, hp |-> hp]
    ELSE [ ss |-> [x \in (DOMAIN ss) \cup {sessionID} |->
                     IF x = sessionID THEN NewSession(sessionID, t, Len(hp) + 1) ELSE ss[x]],
           hp |-> Append(hp, EmptyMap) ]

\* sort.Strings over the attribute keys the model's inputs use (byte order).
KeyOrder == <<"model", "session.id", "terminal.type", "type">>

SortedKeys(attrs) == SelectSeq(KeyOrder, LAMBDA k : k \in DOMAIN attrs)

RECURSIVE JoinParts(_, _)
\* strings.Join of the "k=v" parts with ",".
JoinParts(keys, attrs) ==
    IF keys = <<>> THEN ""
    ELSE IF Len(keys) = 1 THEN Head(keys) \o "=" \o attrs[Head(keys)]
    ELSE Head(keys) \o "=" \o attrs[Head(keys)] \o "," \o JoinParts(Tail(keys), attrs)

metricKey(name, attrs) ==
    IF DOMAIN attrs = {} THEN name
    ELSE name \o "|" \o JoinParts(SortedKeys(attrs), attrs)

\* A seeded bug: no counter-reset handling.
CounterDelta_NoReset(hasPrev, prev, value) ==
    IF ~hasPrev THEN value ELSE value - prev

\* The delta of a cumulative sample against the previous raw value of its key.
CounterDelta(hasPrev, prev, value) ==
    IF ~hasPrev THEN value
    ELSE IF value - prev < 0 THEN value ELSE value - prev

\* int64(delta) of a float64 counting halves: truncation toward zero.
Int64Of(delta) == IF delta >= 0 THEN delta \div 2 ELSE -((-delta) \div 2)

\* time.Duration(delta * float64(time.Second)), in half seconds.
DurationOf(delta) == delta

\* A seeded bug: the last raw value is recorded only for a key's first sample.
StorePrev_FirstOnly(pv, key, value) ==
    IF key \in DOMAIN pv THEN pv ELSE MapPut(pv, key, value)

\* s.PreviousValues[key] = m.Value
StorePrev(pv, key, value) == MapPut(pv, key, value)

\* s.LastEventAt after a write carrying timestamp ts at wall time t.
NextLastEventAt(ts, t) == IF ts # 0 THEN ts ELSE t

\* The body of AddMetric, from getOrCreateSession to the end, at wall time t.
AddMetricApply(ss, hp, sessionID, m, t) ==
    LET g == getOrCreateSession(ss, hp, sessionID, t)
        s == g.ss[sessionID]
        attrs == Deref(g.hp, m.Attributes)
        key == metricKey(m.Name, attrs)
        pv == g.hp[s.PreviousValues]
        hasPrev == key \in DOMAIN pv
        delta == CounterDelta(hasPrev, IF hasPrev THEN pv[key] ELSE 0, m.Value)
        s1 == [ s EXCEPT
                  !.Metrics = Append(@, m),
                  !.LastEventAt = NextLastEventAt(m.Timestamp, t),
                  !.TotalCost = IF m.Name = CostUsage THEN @ + delta ELSE @,
                  !.TotalTokens = IF m.Name = TokenUsage THEN @ + Int64Of(delta) ELSE @,
                  !.ActiveTime = IF m.Name = ActiveTimeTotal THEN @ + DurationOf(delta) ELSE @,
                  !.Model = IF "model" \in DOMAIN attrs /\ attrs["model"] # ""
                            THEN attrs["model"] ELSE @,
                  !.Terminal = IF "terminal.type" \in DOMAIN attrs /\ attrs["terminal.type"] # ""
                               THEN attrs["terminal.type"] ELSE @ ]
    IN  [ ss |-> [g.ss EXCEPT ![sessionID] = s1],
          hp |-> [g.hp EXCEPT ![s.PreviousValues] = StorePrev(pv, key, m.Value)] ]

\* ------------------------------------------------------------------ operations

Init ==
    /\ sessions = EmptyMap
    /\ heap = <<>>
    /\ eventListeners = <<>>
    /\ mu = "free"
    /\ pc = [w \in Writers |-> "idle"]
    /\ call = [w \in Writers |-> IdleCall]
    /\ delivered = [l \in Listeners |-> <<>>]
    /\ snap = Nil
    /\ now = 1
    /\ issued = <<>>
    /\ alerts = <<>>
    /\ lastFired = EmptyMap
    /\ notifier \in BOOLEAN
    /\ notified = <<>>
    /\ cancel = "nil"
    /\ ctxDone = FALSE
    /\ done = FALSE
    /\ evaluator = "none"
    /\ stop = [c \in StopCallers |-> "idle"]
    /\ evalLog = <<>>
    /\ exceededSince = EmptyMap
    /\ failures = EmptyMap
    /\ lastProcessed = EmptyMap
    /\ warnedModels = {}
    /\ warnLog = <<>>
    /\ api = {}
    /\ current = EmptyMap
    /\ seen = {}
    /\ exited = EmptyMap
    /\ scanPc = [g \in Scanners |-> "idle"]
    /\ discovered = [g \in Scanners |-> {}]
    /\ listed = [g \in Scanners |-> {}]
    /\ scanLog = <<>>
    /\ enumLog = <<>>
    /\ topDone = FALSE
    /\ grpc = "none"
    /\ http = "none"
    /\ scanLoop = "none"
    /\ stopCh = FALSE
    /\ tuiModel = NewModel
    /\ procState = [pid \in KillPids |-> "running"]
    /\ sigLog = <<>>
    /\ lastKey = ""
    /\ feed = [events |-> <<>>, alerts |-> <<>>]
    /\ handling = [w \in Writers |-> Nil]
    /\ respLog = <<>>
    /\ classified = Nil
    /\ loaded = Nil
    /\ evalPc = [g \in Evaluators |-> "idle"]
    /\ evalLocal = [g \in Evaluators |-> Nil]
    /\ earlier = <<>>
    /\ panics = <<>>
    /\ scanStop = [c \in StopCallers |-> "idle"]
    /\ inUse = {}
    /\ startLog = <<>>

\* The caller's map for the attributes: nil when there are none.
AllocAttrs(hp, attrs) ==
    IF DOMAIN attrs = {} THEN [hp |-> hp, ref |-> 0]
    ELSE [hp |-> Append(hp, attrs), ref |-> Len(hp) + 1]

\* AddMetric, entry: resolveSessionID, then ms.mu.Lock() (blocks while held).
AddMetricLock(w, sessionID, name, value, attrs, ts) ==
    /\ pc[w] = "idle"
    /\ mu = "free"
    /\ LET a == AllocAttrs(heap, attrs)
           m == [Name |-> name, Value |-> value, Attributes |-> a.ref, Timestamp |-> ts]
       IN  /\ heap' = a.hp
           /\ call' = [call EXCEPT ![w] = [op |-> "AddMetric", sid |-> resolveSessionID(sessionID), m |-> m]]
           /\ issued' = Append(issued, [op |-> "AddMetric", sid |-> resolveSessionID(sessionID), w |-> w, x |-> m])
    /\ mu' = w
    /\ pc' = [pc EXCEPT ![w] = "metric"]
    /\ UNCHANGED <<moreVars, tuiVars, recvVars, alertVars, scanVars, mainVars, sessions, eventListeners, delivered, snap, now>>

\* AddMetric, the critical section and the deferred Unlock at return.
AddMetricBody(w) ==
    /\ pc[w] = "metric"
    /\ LET r == AddMetricApply(sessions, heap, call[w].sid, call[w].m, now)
       IN  /\ sessions' = r.ss
           /\ heap' = r.hp
    /\ mu' = "free"
    /\ pc' = [pc EXCEPT ![w] = "idle"]
    /\ call' = [call EXCEPT ![w] = IdleCall]
    /\ UNCHANGED <<moreVars, tuiVars, recvVars, alertVars, scanVars, mainVars, eventListeners, delivered, snap, now, issued>>

\* The body of AddEvent up to the snapshot of the listeners, at wall time t.
AddEventApply(ss, hp, sessionID, e, t) ==
    LET g == getOrCreateSession(ss, hp, sessionID, t)
        s == g.ss[sessionID]
        attrs == Deref(g.hp, e.Attributes)
        s1 == [ s EXCEPT
                  !.Events = Append(@, e),
                  !.LastEventAt = NextLastEventAt(e.Timestamp, t),
                  !.Model = IF e.Name = ApiRequest /\ "model" \in DOMAIN attrs /\ attrs["model"] # ""
                            THEN attrs["model"] ELSE @ ]
    IN  [ss |-> [g.ss EXCEPT ![sessionID] = s1], hp |-> g.hp]

\* AddEvent, entry: resolveSessionID, then ms.mu.Lock().
AddEventLock(w, sessionID, name, attrs, ts) ==
    /\ pc[w] = "idle"
    /\ mu = "free"
    /\ LET a == AllocAttrs(heap, attrs)
           e == [Name |-> name, Attributes |-> a.ref, Timestamp |-> ts]
       IN  /\ heap' = a.hp
           /\ call' = [call EXCEPT ![w] = [op |-> "AddEvent", sid |-> resolveSessionID(sessionID), e |-> e]]
           /\ issued' = Append(issued, [op |-> "AddEvent", sid |-> resolveSessionID(sessionID), w |-> w, x |-> e])
    /\ mu' = w
    /\ pc' = [pc EXCEPT ![w] = "event"]
    /\ UNCHANGED <<moreVars, tuiVars, recvVars, alertVars, scanVars, mainVars, sessions, eventListeners, delivered, snap, now>>

\* A seeded bug: the lock is released by a deferred Unlock, after the callbacks.
LockAfterAppend_Deferred(w) == w

\* ms.mu after the critical section of AddEvent: ms.mu.Unlock().
LockAfterAppend(w) == "free"

\* AddEvent, the critical section: append, snapshot the listeners, Unlock.
AddEventBody(w) ==
    /\ pc[w] = "event"
    /\ LET r == AddEventApply(sessions, heap, call[w].sid, call[w].e, now)
       IN  /\ sessions' = r.ss
           /\ heap' = r.hp
    /\ call' = [call EXCEPT ![w] =
                  [op |-> "AddEvent", sid |-> call[w].sid, e |-> call[w].e,
                   listeners |-> eventListeners, i |-> 1]]
    /\ mu' = LockAfterAppend(w)
    /\ pc' = [pc EXCEPT ![w] = "notify"]
    /\ UNCHANGED <<moreVars, tuiVars, recvVars, alertVars, scanVars, mainVars, eventListeners, delivered, snap, now, issued>>

\* A seeded bug: the callback is given the session's oldest event.
NotifyEvent_Oldest(w) == sessions[call[w].sid].Events[1]

\* The event handed to fn(sessionID, e).
NotifyEvent(w) == call[w].e

\* AddEvent, one turn of the loop over the snapshot: fn(sessionID, e).
\* `held` records whether the calling goroutine holds ms.mu during the call.
AddEventNotify(w) ==
    /\ pc[w] = "notify"
    /\ call[w].i <= Len(call[w].listeners)
    /\ LET l == call[w].listeners[call[w].i]
       IN  delivered' = [delivered EXCEPT ![l] =
                           Append(@, [sid |-> call[w].sid, e |-> NotifyEvent(w), held |-> (mu = w)])]
    /\ call' = [call EXCEPT ![w].i = @ + 1]
    /\ UNCHANGED <<moreVars, tuiVars, recvVars, alertVars, scanVars, mainVars, sessions, heap, eventListeners, mu, pc, snap, now, issued>>

\* AddEvent, the loop is over: return.
AddEventReturn(w) ==
    /\ pc[w] = "notify"
    /\ call[w].i > Len(call[w].listeners)
    /\ pc' = [pc EXCEPT ![w] = "idle"]
    /\ call' = [call EXCEPT ![w] = IdleCall]
    /\ UNCHANGED <<moreVars, tuiVars, recvVars, alertVars, scanVars, mainVars, sessions, heap, eventListeners, mu, delivered, snap, now, issued>>

\* The listeners registered so far.
Registered == {eventListeners[i] : i \in 1..Len(eventListeners)}

\* OnEvent: Lock, append, Unlock.  Every call registers a listener of its own.
OnEvent(l) ==
    /\ mu = "free"
    /\ l \notin Registered
    /\ eventListeners' = Append(eventListeners, l)
    /\ UNCHANGED <<moreVars, tuiVars, recvVars, alertVars, scanVars, mainVars, sessions, heap, mu, pc, call, delivered, snap, now, issued>>

\* A seeded bug: the PID update clears the exited flag.
UpdatePIDAssign_Revive(s, pid) == [s EXCEPT !.PID = pid, !.Exited = FALSE]

\* UpdatePID, the assignment: s.PID = pid and no other field.
UpdatePIDAssign(s, pid) == [s EXCEPT !.PID = pid]

\* UpdatePID: Lock, getOrCreateSession (the id is taken as given), s.PID = pid.
UpdatePID(sessionID, pid) ==
    /\ mu = "free"
    /\ LET g == getOrCreateSession(sessions, heap, sessionID, now)
       IN  /\ sessions' = [g.ss EXCEPT ![sessionID] = UpdatePIDAssign(@, pid)]
           /\ heap' = g.hp
    /\ UNCHANGED <<moreVars, tuiVars, recvVars, alertVars, scanVars, mainVars, eventListeners, mu, pc, call, delivered, snap, now, issued>>

\* A seeded bug: the early return for PID 0 is missing.
MarkExitedReturnsEarly_Never(pid) == FALSE

\* if pid == 0 { return }
MarkExitedReturnsEarly(pid) == pid = 0

\* A seeded bug: the loop flags every session, whatever its PID.
MarkExitedMatches_Any(session, pid) == TRUE

\* MarkExited, the test inside the loop: session.PID == pid.
MarkExitedMatches(session, pid) == session.PID = pid

\* MarkExited: the early return, else Lock, flag every session of the PID, Unlock.
MarkExited(pid) ==
    IF MarkExitedReturnsEarly(pid)
    THEN UNCHANGED vars
    ELSE /\ mu = "free"
         /\ sessions' = [sid \in DOMAIN sessions |->
                           IF MarkExitedMatches(sessions[sid], pid)
                           THEN [sessions[sid] EXCEPT !.Exited = TRUE]
                           ELSE sessions[sid]]
         /\ UNCHANGED <<moreVars, tuiVars, recvVars, alertVars, scanVars, mainVars, heap, eventListeners, mu, pc, call, delivered, snap, now, issued>>

\* copySession: the struct copy, fresh slices, and a fresh PreviousValues map
\* when the session's map has entries.  Returns the copy and the heap.
copySession(hp, s) ==
    IF DOMAIN hp[s.PreviousValues] # {}
    THEN [ cp |-> [s EXCEPT !.PreviousValues = Len(hp) + 1],
           hp |-> Append(hp, hp[s.PreviousValues]) ]
    ELSE [cp |-> s, hp |-> hp]

\* GetSession: RLock (no writer inside), copySession or nil, RUnlock.
GetSession(sessionID) ==
    /\ mu = "free"
    /\ IF sessionID \in DOMAIN sessions
       THEN LET c == copySession(heap, sessions[sessionID])
            IN  snap' = c.cp /\ heap' = c.hp
       ELSE snap' = Nil /\ heap' = heap
    /\ UNCHANGED <<moreVars, tuiVars, recvVars, alertVars, scanVars, mainVars, sessions, eventListeners, mu, pc, call, delivered, now, issued>>

\* The reader of a snapshot and what it does with its copy (cf.
\* TestStateStore_GetSessionReturnsCopy): s.TotalCost = 999.
SnapSetTotalCost ==
    /\ snap # Nil
    /\ snap.TotalCost # 999
    /\ snap' = [snap EXCEPT !.TotalCost = 999]
    /\ UNCHANGED <<moreVars, tuiVars, recvVars, alertVars, scanVars, mainVars, sessions, heap, eventListeners, mu, pc, call, delivered, now, issued>>

Injected == [Name |-> "injected", Value |-> 0, Attributes |-> 0, Timestamp |-> 0]

\* s.Metrics = append(s.Metrics, Metric{Name: "injected"})
SnapAppendMetric ==
    /\ snap # Nil
    /\ \A i \in 1..Len(snap.Metrics) : snap.Metrics[i] # Injected
    /\ snap' = [snap EXCEPT !.Metrics = Append(@, Injected)]
    /\ UNCHANGED <<moreVars, tuiVars, recvVars, alertVars, scanVars, mainVars, sessions, heap, eventListeners, mu, pc, call, delivered, now, issued>>

\* s.Metrics[i].Attributes[k] = v, or the same on an event: a write through
\* the map the element holds (an element with a nil map has none to write).
SnapSetAttribute(k, v) ==
    /\ snap # Nil
    /\ \E ref \in {snap.Metrics[i].Attributes : i \in 1..Len(snap.Metrics)}
                  \cup {snap.Events[i].Attributes : i \in 1..Len(snap.Events)} :
          /\ ref # 0
          /\ heap[ref] # MapPut(heap[ref], k, v)
          /\ heap' = [heap EXCEPT ![ref] = MapPut(@, k, v)]
    /\ UNCHANGED <<moreVars, tuiVars, recvVars, alertVars, scanVars, mainVars, sessions, eventListeners, mu, pc, call, delivered, snap, now, issued>>

\* s.PreviousValues[key] = value
SnapSetPrevious(key, value) ==
    /\ snap # Nil
    /\ heap[snap.PreviousValues] # MapPut(heap[snap.PreviousValues], key, value)
    /\ heap' = [heap EXCEPT ![snap.PreviousValues] = MapPut(@, key, value)]
    /\ UNCHANGED <<moreVars, tuiVars, recvVars, alertVars, scanVars, mainVars, sessions, eventListeners, mu, pc, call, delivered, snap, now, issued>>

\* The wall clock moves on.
Tick(limit) ==
    /\ now < limit
    /\ now' = now + 1
    /\ UNCHANGED <<moreVars, tuiVars, recvVars, alertVars, scanVars, mainVars, sessions, heap, eventListeners, mu, pc, call, delivered, snap, issued>>

\* ------------------------------------------------------------------ package alerts
\* In this package times count HALF MINUTES: 1 is 30 s, so that the dedup
\* window, the error-storm window and the sustained period are 2.

Minute == 2
Hour == 60 * Minute

\* The variables of MemoryStore other than the clock.
storeVars == <<sessions, heap, eventListeners, mu, pc, call, delivered, snap, issued>>

ToolResult == "claude_code.tool_result"
ApiError == "claude_code.api_error"
ToolDecision == "claude_code.tool_decision"

RuleCostSurge == "CostSurge"
RuleRunawayTokens == "RunawayTokens"
RuleLoopDetector == "LoopDetector"
RuleErrorStorm == "ErrorStorm"
RuleStaleSession == "StaleSession"
RuleContextPressure == "ContextPressure"
RuleHighRejection == "HighRejection"

SeverityWarning == "warning"
SeverityCritical == "critical"

\* config.DefaultConfig().Alerts and .Models; the sustained period is the
\* smallest one the validation of the configuration accepts.
CostSurgeThresholdPerHour == 100
RunawayTokenVelocity == 200000
RunawayTokenSustainedMinutes == 1
LoopDetectorThreshold == 3
LoopDetectorWindowMinutes == 5
ErrorStormCount == 10
StaleSessionHours == 2
ContextPressurePercent == 80
ModelLimits ==
    [m \in {"claude-sonnet-4-5-20250929", "claude-opus-4-6", "claude-haiku-4-5-20251001"} |-> 200000]

\* NewEngine: e.dedupTTL = 60 * time.Second.
dedupTTL == Minute

\* An Alert; its Message is left out.
Alert(rule, severity, sessionID, t) ==
    [Rule |-> rule, Severity |-> severity, SessionID |-> sessionID, FiredAt |-> t]

\* alert_key: rule|session_id.
alertKey(alert) == alert.Rule \o "|" \o alert.SessionID

\* evt.Attributes[k]: the empty string when the key, or the map, is missing.
Attr(e, k) ==
    LET m == Deref(heap, e.Attributes)
    IN  IF k \in DOMAIN m THEN m[k] ELSE ""

RECURSIVE Flatten(_)
\* The concatenation of a sequence of sequences.
Flatten(ss) == IF ss = <<>> THEN <<>> ELSE Head(ss) \o Flatten(Tail(ss))

\* n copies of x.
Repeat(x, n) == [i \in 1..n |-> x]

\* The orders ListSessions can return: every session once, oldest first; the
\* order of sessions started at the same time is the map's and the sort's.
SessionOrders ==
    {o \in [1..Cardinality(DOMAIN sessions) -> DOMAIN sessions] :
        /\ \A i, j \in DOMAIN o : i # j => o[i] # o[j]
        /\ \A i, j \in DOMAIN o : i < j => sessions[o[i]].StartedAt <= sessions[o[j]].StartedAt}

\* ListSessions: the sessions in one of these orders.
ListSessions(order) == [i \in DOMAIN order |-> sessions[order[i]]]

\* costSurgeRule.Evaluate.
costSurgeEvaluate(br, t) ==
    IF br.HourlyRate >= CostSurgeThresholdPerHour
    THEN <<Alert(RuleCostSurge, SeverityCritical, "", t)>>
    ELSE <<>>

\* A seeded bug: a drop of the velocity leaves the timer running.
ExceededAfterDrop_Kept(es, key) == es

\* runawayTokensRule.Evaluate, velocity below the threshold: delete(r.exceededSince, key).
ExceededAfterDrop(es, key) == [k \in DOMAIN es \ {key} |-> es[k]]

\* runawayTokensRule.Evaluate: the alerts and the rule's exceededSince after it.
runawayTokensEvaluate(es, br, t) ==
    LET key == ""
        es1 == IF key \in DOMAIN es THEN es ELSE MapPut(es, key, t)
    IN  IF br.TokenVelocity >= RunawayTokenVelocity
        THEN [ alerts |-> IF t - es1[key] >= RunawayTokenSustainedMinutes * Minute
                          THEN <<Alert(RuleRunawayTokens, SeverityWarning, "", t)>>
                          ELSE <<>>,
               exceededSince |-> es1 ]
        ELSE [ alerts |-> <<>>, exceededSince |-> ExceededAfterDrop(es, key) ]

\* extractBashCommand on the tool_parameters strings the model sends: the
\* bash_command field of the JSON object, else its command field, else "".
extractBashCommand(toolParams) ==
    CASE toolParams = "{\"bash_command\":\"npm test\"}" -> "npm test"
      [] toolParams = "{\"bash_command\":\"npm run test\"}" -> "npm run test"
      [] toolParams = "{\"bash_command\":\"npx jest\"}" -> "npx jest"
      [] toolParams = "{\"command\":\"ls /nope\"}" -> "ls /nope"
      [] OTHER -> ""

\* CommandNormalizer.Normalize on these commands: the canonical aliases of
\* `npm test` share a hash, another command has its own, "" has none.
Normalize(command) ==
    CASE command = "" -> ""
      [] command \in {"npm test", "npm run test", "npx jest"} -> "hash(npm test)"
      [] OTHER -> "hash(" \o command \o ")"

\* pruneTimestamps: keep the timestamps that are not before the cutoff.
pruneTimestamps(timestamps, cutoff) == SelectSeq(timestamps, LAMBDA ts : ~(ts < cutoff))

\* loopDetectorRule.Evaluate, the three tests an event passes to be looked at.
IsFailedBash(e) ==
    /\ e.Name = ToolResult
    /\ Attr(e, "tool_name") = "Bash"
    /\ Attr(e, "success") # "true"

RECURSIVE RecordFailures(_, _, _)
\* loopDetectorRule.Evaluate, the loop over events[i..]: fm is the session's
\* map hash -> timestamps.
RecordFailures(fm, events, i) ==
    IF i > Len(events) THEN fm
    ELSE LET e == events[i]
             hash == Normalize(extractBashCommand(Attr(e, "tool_parameters")))
         IN  IF IsFailedBash(e) /\ hash # ""
             THEN RecordFailures(
                      MapPut(fm, hash, Append(IF hash \in DOMAIN fm THEN fm[hash] ELSE <<>>, e.Timestamp)),
                      events, i + 1)
             ELSE RecordFailures(fm, events, i + 1)

RECURSIVE loopDetectorEvaluate(_, _, _, _, _)
\* loopDetectorRule.Evaluate over ss[i..]: the alerts, failures and
\* lastProcessed after it.
loopDetectorEvaluate(ss, i, fs, lp, t) ==
    IF i > Len(ss) THEN [alerts |-> <<>>, failures |-> fs, lastProcessed |-> lp]
    ELSE LET session == ss[i]
             sid == session.SessionID
             start == IF sid \in DOMAIN lp THEN lp[sid] ELSE 0
             fm0 == IF sid \in DOMAIN fs THEN fs[sid] ELSE EmptyMap
             fm1 == RecordFailures(fm0, session.Events, start + 1)
             window == LoopDetectorWindowMinutes * Minute
             fm2 == [h \in DOMAIN fm1 |-> pruneTimestamps(fm1[h], t - window)]
             n == Cardinality({h \in DOMAIN fm2 : Len(fm2[h]) >= LoopDetectorThreshold})
             fs1 == IF DOMAIN fm2 = {} /\ sid \notin DOMAIN fs THEN fs ELSE MapPut(fs, sid, fm2)
             rest == loopDetectorEvaluate(ss, i + 1, fs1, MapPut(lp, sid, Len(session.Events)), t)
         IN  [rest EXCEPT !.alerts = Repeat(Alert(RuleLoopDetector, SeverityWarning, sid, t), n) \o @]

\* A seeded bug: a count equal to the threshold is a storm.
IsStorm_AtThreshold(count) == count >= ErrorStormCount

\* errorStormRule.Evaluate: count > r.threshold.
IsStorm(count) == count > ErrorStormCount

\* errorStormRule.Evaluate, one session: the api_error events not before the cutoff.
StormCount(session, t) ==
    Cardinality({i \in 1..Len(session.Events) :
                    /\ session.Events[i].Name = ApiError
                    /\ ~(session.Events[i].Timestamp < t - Minute)})

\* errorStormRule.Evaluate.
errorStormEvaluate(ss, t) ==
    Flatten([i \in 1..Len(ss) |->
               IF IsStorm(StormCount(ss[i], t))
               THEN <<Alert(RuleErrorStorm, SeverityCritical, ss[i].SessionID, t)>>
               ELSE <<>>])

\* staleSessionRule.Evaluate.
staleSessionEvaluate(ss, t) ==
    Flatten([i \in 1..Len(ss) |->
               IF /\ ~ss[i].Exited
                  /\ ~(t - ss[i].StartedAt < StaleSessionHours * Hour)
                  /\ \A j \in 1..Len(ss[i].Events) : ss[i].Events[j].Name # UserPrompt
               THEN <<Alert(RuleStaleSession, SeverityWarning, ss[i].SessionID, t)>>
               ELSE <<>>])

\* strconv.ParseInt(s, 10, 64) on the input_tokens strings the model sends.
ParseInt(s) ==
    CASE s = "160000" -> [err |-> FALSE, n |-> 160000]
      [] s = "160001" -> [err |-> FALSE, n |-> 160001]
      [] OTHER -> [err |-> TRUE, n |-> 0]

\* A seeded bug: a request at the threshold is under pressure.
ExceedsPressure_AtThreshold(inputTokens, limit) ==
    inputTokens * 100 >= limit * ContextPressurePercent

\* float64(inputTokens) > float64(limit) * float64(r.pressurePercent) / 100.0,
\* both sides times 100: the products are exact in float64.
ExceedsPressure(inputTokens, limit) ==
    inputTokens * 100 > limit * ContextPressurePercent

\* contextPressureRule.Evaluate, one event: does it raise an alert.
PressureAlerts(e) ==
    LET model == Attr(e, "model")
        tokens == ParseInt(Attr(e, "input_tokens"))
    IN  /\ e.Name = ApiRequest
        /\ model \in DOMAIN ModelLimits
        /\ Attr(e, "input_tokens") # ""
        /\ ~tokens.err
        /\ ExceedsPressure(tokens.n, ModelLimits[model])

\* contextPressureRule.Evaluate, one event: is its model missing from the limits.
PressureUnknown(e) ==
    /\ e.Name = ApiRequest
    /\ Attr(e, "model") # ""
    /\ Attr(e, "model") \notin DOMAIN ModelLimits

\* r.warnedModels[model] = true.
WarnedAfter(warned, model) == warned \cup {model}

RECURSIVE PressureWarnings(_, _, _)
\* contextPressureRule.Evaluate, the one-time warnings over events[i..]:
\* the models warned about, in order, and warnedModels after it.
PressureWarnings(events, i, warned) ==
    IF i > Len(events) THEN [lines |-> <<>>, warned |-> warned]
    ELSE LET model == Attr(events[i], "model")
         IN  IF PressureUnknown(events[i]) /\ model \notin warned
             THEN LET rest == PressureWarnings(events, i + 1, WarnedAfter(warned, model))
                  IN  [rest EXCEPT !.lines = <<model>> \o @]
             ELSE PressureWarnings(events, i + 1, warned)

\* contextPressureRule.Evaluate: the alerts, the warnings and warnedModels after it.
contextPressureEvaluate(ss, warned, t) ==
    LET w == PressureWarnings(Flatten([i \in 1..Len(ss) |-> ss[i].Events]), 1, warned)
    IN  [ alerts |-> Flatten([i \in 1..Len(ss) |->
                        Repeat(Alert(RuleContextPressure, SeverityWarning, ss[i].SessionID, t),
                               Cardinality({j \in 1..Len(ss[i].Events) : PressureAlerts(ss[i].Events[j])}))]),
          lines |-> w.lines,
          warned |-> w.warned ]

\* highRejectionRule.Evaluate: rejects / total > 0.50 over the last 5 minutes.
highRejectionEvaluate(ss, t) ==
    Flatten([i \in 1..Len(ss) |->
               LET decisions == {j \in 1..Len(ss[i].Events) :
                                    /\ ss[i].Events[j].Name = ToolDecision
                                    /\ ~(ss[i].Events[j].Timestamp < t - 5 * Minute)}
                   rejects == {j \in decisions : Attr(ss[i].Events[j], "decision") = "reject"}
               IN  IF Cardinality(decisions) > 0 /\ 2 * Cardinality(rejects) > Cardinality(decisions)
                   THEN <<Alert(RuleHighRejection, SeverityWarning, ss[i].SessionID, t)>>
                   ELSE <<>>])

\* A seeded bug: nothing is ever a duplicate.
isDuplicate_Never(lf, alert) == FALSE

\* Engine.isDuplicate: the key fired less than dedupTTL before this alert.
isDuplicate(lf, alert) ==
    /\ alertKey(alert) \in DOMAIN lf
    /\ alert.FiredAt - lf[alertKey(alert)] < dedupTTL

\* A seeded bug: the index is never pruned.
recordFired_NoPrune(lf, alert) == MapPut(lf, alertKey(alert), alert.FiredAt)

\* Engine.recordFired: store the fire time, then delete the entries more than
\* 2 * dedupTTL older than this alert.
recordFired(lf, alert) ==
    LET lf1 == MapPut(lf, alertKey(alert), alert.FiredAt)
    IN  [k \in {x \in DOMAIN lf1 : ~(alert.FiredAt - lf1[x] > 2 * dedupTTL)} |-> lf1[k]]

RECURSIVE Dedup(_, _, _)
\* Engine.evaluate, the loop over the triggered alerts from index i on:
\* lastFired after it and the alerts that were not duplicates.
Dedup(triggered, i, lf) ==
    IF i > Len(triggered) THEN [lastFired |-> lf, newAlerts |-> <<>>]
    ELSE IF isDuplicate(lf, triggered[i])
         THEN Dedup(triggered, i + 1, lf)
         ELSE LET rest == Dedup(triggered, i + 1, recordFired(lf, triggered[i]))
              IN  [rest EXCEPT !.newAlerts = <<triggered[i]>> \o @]

\* A seeded bug: the notifier is told of every triggered alert.
ToNotify_Triggered(triggered, newAlerts) == triggered

\* Engine.evaluate: the alerts handed to e.notifier.Notify.
ToNotify(triggered, newAlerts) == newAlerts

\* Engine.evaluate(t): every rule in the order of e.rules, the dedup, the
\* append to e.alerts and the notifications.  br is what the burn-rate
\* calculator computes for this store and time; order is the order in
\* which ListSessions returns the sessions.
evaluate(t, br, order) ==
    /\ mu = "free"
    /\ LET r2 == runawayTokensEvaluate(exceededSince, br, t)
           r3 == loopDetectorEvaluate(ListSessions(order), 1, failures, lastProcessed, t)
           r6 == contextPressureEvaluate(ListSessions(order), warnedModels, t)
           triggered == costSurgeEvaluate(br, t)
                        \o r2.alerts
                        \o r3.alerts
                        \o errorStormEvaluate(ListSessions(order), t)
                        \o staleSessionEvaluate(ListSessions(order), t)
                        \o r6.alerts
                        \o highRejectionEvaluate(ListSessions(order), t)
           d == Dedup(triggered, 1, lastFired)
       IN  /\ exceededSince' = r2.exceededSince
           /\ failures' = r3.failures
           /\ lastProcessed' = r3.lastProcessed
           /\ warnedModels' = r6.warned
           /\ warnLog' = warnLog \o r6.lines
           /\ lastFired' = d.lastFired
           /\ alerts' = alerts \o d.newAlerts
           /\ notified' = IF notifier THEN notified \o ToNotify(triggered, d.newAlerts) ELSE notified
           /\ evalLog' = Append(evalLog,
                            [at |-> t, br |-> br, returned |-> triggered, newAlerts |-> d.newAlerts,
                             lines |-> r6.lines, cancelled |-> ctxDone])
    /\ UNCHANGED <<moreVars, tuiVars, recvVars, storeVars, now, scanVars, mainVars, notifier, cancel, ctxDone, done, evaluator, stop>>

\* Engine.EvaluateAt(now): one evaluation at the time the caller read from the clock.
EvaluateAt(br, order) == evaluate(now, br, order)

\* Engine.evaluate as two callers run it at once, in the steps between
\* which the other caller may run: the rules, each isDuplicate (under
\* e.mu.RLock), each recordFired (under e.mu.Lock), the append with the
\* notifications.  The ticker's evaluation needs the evaluator to be running.

\* The rules, every rule.Evaluate of the pass.
evaluateRules(g, t, br, order) ==
    /\ evalPc[g] = "idle"
    /\ g = "ticker" => evaluator = "select"
    /\ mu = "free"
    /\ LET r2 == runawayTokensEvaluate(exceededSince, br, t)
           r3 == loopDetectorEvaluate(ListSessions(order), 1, failures, lastProcessed, t)
           r6 == contextPressureEvaluate(ListSessions(order), warnedModels, t)
           triggered == costSurgeEvaluate(br, t)
                        \o r2.alerts
                        \o r3.alerts
                        \o errorStormEvaluate(ListSessions(order), t)
                        \o staleSessionEvaluate(ListSessions(order), t)
                        \o r6.alerts
                        \o highRejectionEvaluate(ListSessions(order), t)
       IN  /\ exceededSince' = r2.exceededSince
           /\ failures' = r3.failures
           /\ lastProcessed' = r3.lastProcessed
           /\ warnedModels' = r6.warned
           /\ warnLog' = warnLog \o r6.lines
           /\ evalLocal' = [evalLocal EXCEPT ![g] =
                              [at |-> t, br |-> br, triggered |-> triggered, i |-> 1,
                               newAlerts |-> <<>>, lines |-> r6.lines]]
           /\ evalPc' = [evalPc EXCEPT ![g] = "isDuplicate"]
    /\ UNCHANGED <<bindVars, statusVars, cfgVars, lifeVars, tuiVars, recvVars, storeVars, now, scanVars, mainVars,
                   alerts, lastFired, notifier, notified, cancel, ctxDone, done, evaluator, stop,
                   evalLog>>

\* if e.isDuplicate(alert) { continue }.
evaluateIsDuplicate(g) ==
    /\ evalPc[g] = "isDuplicate"
    /\ LET l == evalLocal[g]
       IN  IF l.i > Len(l.triggered)
           THEN /\ evalPc' = [evalPc EXCEPT ![g] = "append"]
                /\ UNCHANGED <<evalLocal, lastFired>>
           ELSE IF isDuplicate(lastFired, l.triggered[l.i])
                THEN /\ evalLocal' = [evalLocal EXCEPT ![g].i = @ + 1]
                     /\ UNCHANGED <<evalPc, lastFired>>
                ELSE /\ evalPc' = [evalPc EXCEPT ![g] = "recordFired"]
                     /\ UNCHANGED <<evalLocal, lastFired>>
    /\ UNCHANGED <<bindVars, statusVars, cfgVars, lifeVars, tuiVars, recvVars, storeVars, now, scanVars, mainVars,
                   alerts, notifier, notified, cancel, ctxDone, done, evaluator, stop, evalLog,
                   exceededSince, failures, lastProcessed, warnedModels, warnLog>>

\* e.recordFired(alert); newAlerts = append(newAlerts, alert).
evaluateRecordFired(g) ==
    /\ evalPc[g] = "recordFired"
    /\ LET l == evalLocal[g]
       IN  /\ lastFired' = recordFired(lastFired, l.triggered[l.i])
           /\ evalLocal' = [evalLocal EXCEPT ![g].i = @ + 1,
                                             ![g].newAlerts = Append(@, l.triggered[l.i])]
    /\ evalPc' = [evalPc EXCEPT ![g] = "isDuplicate"]
    /\ UNCHANGED <<bindVars, statusVars, cfgVars, lifeVars, tuiVars, recvVars, storeVars, now, scanVars, mainVars,
                   alerts, notifier, notified, cancel, ctxDone, done, evaluator, stop, evalLog,
                   exceededSince, failures, lastProcessed, warnedModels, warnLog>>

\* The append to e.alerts under e.mu.Lock, then the notifications.
evaluateAppend(g) ==
    /\ evalPc[g] = "append"
    /\ LET l == evalLocal[g]
       IN  /\ alerts' = alerts \o l.newAlerts
           /\ notified' = IF notifier THEN notified \o ToNotify(l.triggered, l.newAlerts)
                          ELSE notified
           /\ evalLog' = Append(evalLog,
                            [at |-> l.at, br |-> l.br, returned |-> l.triggered,
                             newAlerts |-> l.newAlerts, lines |-> l.lines, cancelled |-> ctxDone])
    /\ evalPc' = [evalPc EXCEPT ![g] = "idle"]
    /\ evalLocal' = [evalLocal EXCEPT ![g] = Nil]
    /\ UNCHANGED <<bindVars, statusVars, cfgVars, lifeVars, tuiVars, recvVars, storeVars, now, scanVars, mainVars,
                   lastFired, notifier, cancel, ctxDone, done, evaluator, stop,
                   exceededSince, failures, lastProcessed, warnedModels, warnLog>>

\* Engine.Start: derive the context from main's ctx (done at once if that
\* one is), keep its CancelFunc, launch the evaluator.  e.cancel is
\* overwritten: the goroutine of a Start before this one keeps its own
\* context, which only main's ctx can still cancel.
Start ==
    /\ cancel' = "set"
    /\ ctxDone' = topDone
    /\ evaluator' = "select"
    /\ earlier' = IF evaluator = "none" THEN earlier
                  ELSE Append(earlier, [ctxDone |-> ctxDone, state |-> evaluator])
    /\ UNCHANGED <<bindVars, statusVars, cfgVars, evalVars, panics, scanStop, tuiVars, recvVars, storeVars, now, scanVars, mainVars,
                   alerts, lastFired, notifier, notified, done,
                   stop, evalLog, exceededSince, failures, lastProcessed, warnedModels, warnLog>>

\* The evaluator, case <-ticker.C: e.evaluate(time.Now()).  A select with
\* both cases ready may take this one, so ctxDone does not disable it.
EvaluatorTick(br, order) ==
    /\ evaluator = "select"
    /\ evaluate(now, br, order)

\* The evaluator, case <-ctx.Done(): return, and the deferred
\* close(e.done).  e.done is made once, in NewEngine: the close panics when
\* the goroutine of another Start has closed it.
EvaluatorExit ==
    /\ evaluator = "select"
    /\ ctxDone
    /\ IF done
       THEN /\ evaluator' = "panicked"
            /\ panics' = Append(panics, [by |-> "evaluator", in |-> "Engine.Start", what |-> CloseOfClosedChannel])
            /\ UNCHANGED done
       ELSE /\ evaluator' = "exited"
            /\ done' = TRUE
            /\ UNCHANGED panics
    /\ UNCHANGED <<bindVars, statusVars, cfgVars, evalVars, earlier, scanStop, tuiVars, recvVars, storeVars, now, scanVars, mainVars,
                   alerts, lastFired, notifier, notified, cancel, ctxDone,
                   stop, evalLog, exceededSince, failures, lastProcessed, warnedModels, warnLog>>

\* The evaluator of an earlier Start, case <-ticker.C.
EarlierTick(i, br, order) ==
    /\ i \in DOMAIN earlier
    /\ earlier[i].state = "select"
    /\ evaluate(now, br, order)

\* The evaluator of an earlier Start, case <-ctx.Done(): its context is
\* done if it was cancelled while e.cancel still was its CancelFunc, or
\* once main's ctx is.
EarlierExit(i) ==
    /\ i \in DOMAIN earlier
    /\ earlier[i].state = "select"
    /\ earlier[i].ctxDone \/ topDone
    /\ IF done
       THEN /\ earlier' = [earlier EXCEPT ![i].state = "panicked"]
            /\ panics' = Append(panics, [by |-> "evaluator", in |-> "Engine.Start", what |-> CloseOfClosedChannel])
            /\ UNCHANGED done
       ELSE /\ earlier' = [earlier EXCEPT ![i].state = "exited"]
            /\ done' = TRUE
            /\ UNCHANGED panics
    /\ UNCHANGED <<bindVars, statusVars, cfgVars, evalVars, scanStop, tuiVars, recvVars, storeVars, now, scanVars, mainVars,
                   alerts, lastFired, notifier, notified, cancel, ctxDone, evaluator,
                   stop, evalLog, exceededSince, failures, lastProcessed, warnedModels, warnLog>>

\* Engine.Stop, up to the receive: nothing to do when e.cancel is nil, else e.cancel().
StopCancel(c) ==
    /\ stop[c] = "idle"
    /\ IF cancel = "nil"
       THEN /\ stop' = [stop EXCEPT ![c] = "returned"]
            /\ UNCHANGED ctxDone
       ELSE /\ stop' = [stop EXCEPT ![c] = "waiting"]
            /\ ctxDone' = TRUE
    /\ UNCHANGED <<moreVars, tuiVars, recvVars, storeVars, now, scanVars, mainVars, alerts, lastFired, notifier, notified, cancel, done,
                   evaluator, evalLog, exceededSince, failures, lastProcessed, warnedModels, warnLog>>

\* A seeded bug: Stop does not wait for the evaluator.
StopMayReturn_NoWait == TRUE

\* Engine.Stop, <-e.done: the receive returns once the channel is closed.
StopMayReturn == done

\* Engine.Stop, the receive and the return.
StopWait(c) ==
    /\ stop[c] = "waiting"
    /\ StopMayReturn
    /\ stop' = [stop EXCEPT ![c] = "returned"]
    /\ UNCHANGED <<moreVars, tuiVars, recvVars, storeVars, now, scanVars, mainVars, alerts, lastFired, notifier, notified, cancel, ctxDone, done,
                   evaluator, evalLog, exceededSince, failures, lastProcessed, warnedModels, warnLog>>

\* The clock moves on by d.
Sleep(d, limit) ==
    /\ now + d <= limit
    /\ now' = now + d
    /\ UNCHANGED <<moreVars, tuiVars, recvVars, storeVars, alertVars, scanVars, mainVars>>

\* ------------------------------------------------------------------ package config

\* A Config is written section -> key -> value under the TOML names of the
\* struct fields; the float keys count hundredths (0.50 is 50).  A TOML
\* document is the raw map toml.Decode makes of it, and its text is only
\* known to be empty or not.

\* DefaultConfig.  AlertsConfig.RunawayTokenSustainedMinutes is not among
\* the fields it sets and so has the zero value.
DefaultConfig ==
    [receiver |-> [grpc_port |-> 4317, http_port |-> 4318, bind |-> "127.0.0.1"],
     scanner |-> [interval_seconds |-> 5],
     alerts |-> [cost_surge_threshold_per_hour |-> 10000,
                 runaway_token_velocity |-> 200000,
                 runaway_token_sustained_minutes |-> 0,
                 loop_detector_threshold |-> 3,
                 loop_detector_window_minutes |-> 5,
                 error_storm_count |-> 10,
                 stale_session_hours |-> 2,
                 context_pressure_percent |-> 80,
                 notifications |-> [system_notify |-> TRUE]],
     display |-> [event_buffer_size |-> 1000, refresh_rate_ms |-> 500,
                  cost_color_green_below |-> 50, cost_color_yellow_below |-> 200],
     models |-> [m \in {"claude-sonnet-4-5-20250929", "claude-opus-4-6",
                        "claude-haiku-4-5-20251001"} |-> 200000],
     pricing |-> [m \in {"claude-sonnet-4-5-20250929"} |-> <<300, 1500, 30, 375>>]]

\* The sections mergeFromRaw merges, and the top-level keys LoadFromString knows.
StructSections == {"receiver", "scanner", "alerts", "display"}
knownTopLevel == StructSections \cup {"models"}

\* rawSection: the sub-map of a top-level key, when there is one.
rawSection(raw, key) ==
    IF key \in DOMAIN raw THEN [m |-> raw[key], ok |-> TRUE] ELSE [m |-> EmptyMap, ok |-> FALSE]

\* mergeFromRaw: every key of a struct section that is present in the raw
\* map takes the decoded value; the others are left alone.
mergeFromRaw(cfg, raw) ==
    [sec \in DOMAIN cfg |->
        IF sec \in StructSections /\ rawSection(raw, sec).ok
        THEN [k \in DOMAIN cfg[sec] |->
                IF k \in DOMAIN raw[sec] THEN raw[sec][k] ELSE cfg[sec][k]]
        ELSE cfg[sec]]

\* mergeModelsFromRaw: the bare keys of [models] are context limits, the
\* sub-table pricing holds four prices per model.
mergeModelsFromRaw(cfg, raw) ==
    IF ~rawSection(raw, "models").ok THEN cfg
    ELSE LET modelsMap == raw["models"]
             limits == DOMAIN modelsMap \ {"pricing"}
             pricingMap == IF "pricing" \in DOMAIN modelsMap THEN modelsMap["pricing"] ELSE EmptyMap
             priced == {m \in DOMAIN pricingMap : Len(pricingMap[m]) = 4}
         IN  [cfg EXCEPT
                 !.models = [m \in DOMAIN cfg.models \cup limits |->
                               IF m \in limits THEN modelsMap[m] ELSE cfg.models[m]],
                 !.pricing = [m \in DOMAIN cfg.pricing \cup priced |->
                               IF m \in priced THEN pricingMap[m] ELSE cfg.pricing[m]]]

\* validate: the keys whose value is out of range.
validate(cfg) ==
    {k \in {"grpc_port", "http_port"} : cfg.receiver[k] < 1 \/ cfg.receiver[k] > 65535}
    \cup {k \in {"interval_seconds"} : cfg.scanner[k] < 1}
    \cup {k \in {"cost_surge_threshold_per_hour"} : cfg.alerts[k] <= 0}
    \cup {k \in {"runaway_token_velocity", "runaway_token_sustained_minutes",
                  "loop_detector_threshold", "loop_detector_window_minutes",
                  "error_storm_count", "stale_session_hours"} : cfg.alerts[k] < 1}
    \cup {k \in {"context_pressure_percent"} : cfg.alerts[k] < 1 \/ cfg.alerts[k] > 100}
    \cup {k \in {"event_buffer_size", "refresh_rate_ms"} : cfg.display[k] < 1}
    \cup {k \in {"cost_color_green_below", "cost_color_yellow_below"} : cfg.display[k] <= 0}
    \cup {m \in DOMAIN cfg.models : cfg.models[m] < 1}

\* A TOML text: empty or not, and the raw map it decodes to.
Document(empty, raw) == [empty |-> empty, raw |-> raw]

LoadResult(cfg, warnings) == [err |-> FALSE, errs |-> {}, Config |-> cfg, Warnings |-> warnings]

LoadError(errs) == [err |-> TRUE, errs |-> errs, Config |-> Nil, Warnings |-> {}]

\* LoadFromString, as a function of the text.
LoadFromStringResult(data) ==
    IF data.empty THEN LoadResult(DefaultConfig, {})
    ELSE LET warnings == DOMAIN data.raw \ knownTopLevel
             cfg == mergeModelsFromRaw(mergeFromRaw(DefaultConfig, data.raw), data.raw)
         IN  IF validate(cfg) # {} THEN LoadError(validate(cfg)) ELSE LoadResult(cfg, warnings)

\* LoadFromString.
LoadFromString(data) ==
    /\ loaded' = [data |-> data, result |-> LoadFromStringResult(data)]
    /\ UNCHANGED <<bindVars, statusVars, evalVars, lifeVars, tuiVars, recvVars, storeVars, now, alertVars, scanVars, mainVars>>

\* ------------------------------------------------------------------ package scanner

\* The processes the machine can run, as the mock processes of the tests
\* describe them: binary name, argv, and whether reading argv and the
\* environment fails. 5103 is 5102 with an unreadable environment, 5001 the
\* Claude Desktop app.
Claude == [BinaryName |-> "claude", args |-> <<"/usr/local/bin/claude">>, envErr |-> FALSE]
NodeClaude ==
    [BinaryName |-> "node",
     args |-> <<"/usr/local/bin/node",
                "/usr/local/lib/node_modules/@anthropic-ai/claude-code/cli.js">>,
     envErr |-> FALSE]
Processes ==
    [pid \in {4821, 7001, 6600, 5102, 5103, 9999, 5001} |->
        CASE pid \in {4821, 7001} -> Claude
          [] pid = 6600 -> [Claude EXCEPT !.envErr = TRUE]
          [] pid = 5102 -> NodeClaude
          [] pid = 5103 -> [NodeClaude EXCEPT !.envErr = TRUE]
          [] pid = 9999 -> [BinaryName |-> "node",
                            args |-> <<"/usr/local/bin/node", "/some/other/script.js">>,
                            envErr |-> FALSE]
          [] pid = 5001 -> [BinaryName |-> "Claude",
                            args |-> <<"/Applications/Claude.app/Contents/MacOS/Claude">>,
                            envErr |-> FALSE]]

\* GetProcessArgs as the mock answers it: argv, or nothing and an error.
GetProcessArgs(pid) ==
    IF Processes[pid].envErr THEN [args |-> <<>>, err |-> TRUE]
    ELSE [args |-> Processes[pid].args, err |-> FALSE]

\* strings.Contains(arg, ".app/") and
\* strings.Contains(arg, "@anthropic-ai/claude-code"), on the argv strings above.
ContainsAppDir(arg) == arg = "/Applications/Claude.app/Contents/MacOS/Claude"
ContainsClaudeCode(arg) ==
    arg = "/usr/local/lib/node_modules/@anthropic-ai/claude-code/cli.js"

\* strings.ToLower, on the binary names above.
ToLower(name) == IF name = "Claude" THEN "claude" ELSE name

isClaude(binaryName, args) ==
    IF ToLower(binaryName) = "claude"
    THEN ~(Len(args) > 0 /\ ContainsAppDir(args[1]))
    ELSE /\ ToLower(binaryName) \in {"node", "nodejs"}
         /\ \E i \in 1..Len(args) : ContainsClaudeCode(args[i])

\* The libproc pass keeps a PID when isClaude accepts what was read of it.
KeptByLibproc(pid) ==
    isClaude(Processes[pid].BinaryName, GetProcessArgs(pid).args)

\* The pgrep fallback keeps a PID unless its argv[0] is inside an .app bundle.
KeptByFallback(pid) ==
    ~(Len(GetProcessArgs(pid).args) > 0 /\ ContainsAppDir(GetProcessArgs(pid).args[1]))

\* The keys of the local map `discovered` before the lock: the libproc pass
\* over the PIDs whose GetProcessInfo succeeded and, when it finds nothing,
\* the PIDs pgrep printed.
Discover(infoOk, pgrep) ==
    LET libproc == {pid \in infoOk : KeptByLibproc(pid)}
    IN  IF libproc = {} THEN {pid \in pgrep : KeptByFallback(pid)} ELSE libproc

\* A ProcessInfo; of its fields the model keeps the PID and the three flags.
ProcessInfo(pid, isNew, hasExited) ==
    [PID |-> pid, IsNew |-> isNew, Exited |-> hasExited,
     EnvReadable |-> ~GetProcessArgs(pid).err]

\* classifier.go.

TelemetryConnected == "Connected"
TelemetryWaiting == "Waiting"
TelemetryWrongPort == "WrongPort"
TelemetryConsoleOnly == "ConsoleOnly"
TelemetryOff == "Off"
TelemetryUnknown == "Unknown"

EnableTelemetry == "CLAUDE_CODE_ENABLE_TELEMETRY"
OtlpEndpoint == "OTEL_EXPORTER_OTLP_ENDPOINT"
MetricsExporter == "OTEL_METRICS_EXPORTER"
LogsExporter == "OTEL_LOGS_EXPORTER"

\* v, ok := m[k]: the zero value "" when the key is absent.
Lookup(m, k) == IF k \in DOMAIN m THEN [v |-> m[k], ok |-> TRUE] ELSE [v |-> "", ok |-> FALSE]

\* strings.Contains(endpoint, "://"), over the endpoints in play.
ContainsSchemeSep(endpoint) ==
    endpoint \in {"http://localhost:4317", "http://localhost:9090", "http://localhost",
                  "https://collector.example.com", "grpc://localhost", "http://[::1"}

\* url.Parse, over the endpoints in play: the scheme and u.Port().
urlParse(endpoint) ==
    CASE endpoint = "http://localhost:4317" -> [err |-> FALSE, Scheme |-> "http", Port |-> "4317"]
      [] endpoint = "http://localhost:9090" -> [err |-> FALSE, Scheme |-> "http", Port |-> "9090"]
      [] endpoint = "http://localhost:4318" -> [err |-> FALSE, Scheme |-> "http", Port |-> "4318"]
      [] endpoint = "http://localhost" -> [err |-> FALSE, Scheme |-> "http", Port |-> ""]
      [] endpoint = "https://collector.example.com" -> [err |-> FALSE, Scheme |-> "https", Port |-> ""]
      [] endpoint = "grpc://localhost" -> [err |-> FALSE, Scheme |-> "grpc", Port |-> ""]
      [] OTHER -> [err |-> TRUE, Scheme |-> "", Port |-> ""]

\* strconv.Atoi, over the port strings in play.
Atoi(str) ==
    CASE str = "4317" -> 4317
      [] str = "4318" -> 4318
      [] str = "9090" -> 9090

\* extractPort: a bare host:port gets http:// in front; the explicit port,
\* else the scheme's default, else -1.
extractPort(endpoint) ==
    LET u == urlParse(IF ~ContainsSchemeSep(endpoint) THEN "http://" \o endpoint ELSE endpoint)
    IN  IF u.err THEN -1
        ELSE IF u.Port # "" THEN Atoi(u.Port)
        ELSE CASE u.Scheme = "http" -> 80
               [] u.Scheme = "https" -> 443
               [] OTHER -> -1

connectedOrWaiting(hasReceivedData) ==
    IF hasReceivedData THEN TelemetryConnected ELSE TelemetryWaiting

\* Seeded bug: an empty CLAUDE_CODE_ENABLE_TELEMETRY counts as enabled.
TelemetryDisabled_EmptyOn(telemetry) == ~telemetry.ok \/ telemetry.v = "0"

\* ClassifyTelemetry: !hasTelemetry || telemetryVal == "0" || telemetryVal == "".
TelemetryDisabled(telemetry) == ~telemetry.ok \/ telemetry.v = "0" \/ telemetry.v = ""

\* ClassifyTelemetry: the Status of the StatusInfo it returns.
ClassifyTelemetry(proc, configuredPort, hasReceivedData) ==
    IF hasReceivedData THEN TelemetryConnected
    ELSE IF ~proc.EnvReadable THEN TelemetryUnknown
    ELSE IF TelemetryDisabled(Lookup(proc.EnvVars, EnableTelemetry)) THEN TelemetryOff
    ELSE LET endpoint == Lookup(proc.EnvVars, OtlpEndpoint)
             metricsExporter == Lookup(proc.EnvVars, MetricsExporter).v
             logsExporter == Lookup(proc.EnvVars, LogsExporter).v
         IN  IF ~endpoint.ok \/ endpoint.v = ""
             THEN IF metricsExporter # "otlp" /\ logsExporter # "otlp" THEN TelemetryConsoleOnly
                  ELSE IF configuredPort = 4317 THEN connectedOrWaiting(hasReceivedData)
                  ELSE TelemetryWrongPort
             ELSE IF extractPort(endpoint.v) = configuredPort
                  THEN connectedOrWaiting(hasReceivedData)
                  ELSE TelemetryWrongPort

\* scannerAdapter.GetTelemetryStatus: one call of ClassifyTelemetry.
GetTelemetryStatus(proc, configuredPort, hasReceivedData) ==
    /\ classified' = [proc |-> proc, configuredPort |-> configuredPort,
                      hasReceivedData |-> hasReceivedData,
                      Status |-> ClassifyTelemetry(proc, configuredPort, hasReceivedData)]
    /\ UNCHANGED <<bindVars, cfgVars, evalVars, lifeVars, tuiVars, recvVars, storeVars, now, alertVars, scanVars, mainVars>>

\* Seeded bug: every PID of the exited pool is reported.
exitedNotLive_All(cur, ex) == DOMAIN ex

\* listAllLocked, the test in its second loop: the PIDs of the exited pool
\* that are not in s.current.
exitedNotLive(cur, ex) == DOMAIN ex \ DOMAIN cur

\* Seeded bug: the exited pool is not reported.
listAllLocked_LiveOnly(cur, ex) ==
    {cur[pid] : pid \in DOMAIN cur}

\* listAllLocked: the live processes, and the exited ones that are not live again.
listAllLocked(cur, ex) ==
    {cur[pid] : pid \in DOMAIN cur} \cup {ex[pid] : pid \in exitedNotLive(cur, ex)}

\* A process starts.
Spawn(pid) ==
    /\ pid \notin api
    /\ api' = api \cup {pid}
    /\ UNCHANGED <<moreVars, tuiVars, recvVars, storeVars, now, alertVars, mainVars, current, seen, exited, scanPc, discovered, listed, scanLog, enumLog>>

\* A process ends.
Exit(pid) ==
    /\ pid \in api
    /\ api' = api \ {pid}
    /\ UNCHANGED <<moreVars, tuiVars, recvVars, storeVars, now, alertVars, mainVars, current, seen, exited, scanPc, discovered, listed, scanLog, enumLog>>

\* Scan, ListAllPIDs fails: return s.listAll(), what the last scan left.
ScanListFails(g) ==
    /\ scanPc[g] = "idle"
    /\ scanLog' = Append(scanLog, [by |-> g, failed |-> TRUE, listed |-> {}, observed |-> {},
                                    result |-> listAllLocked(current, exited)])
    /\ UNCHANGED <<moreVars, tuiVars, recvVars, storeVars, now, alertVars, mainVars, api, current, seen, exited, scanPc, discovered, listed, enumLog>>

\* Scan, before the lock: the PIDs enumerated, classified and read into the
\* local map. infoOk are the PIDs whose GetProcessInfo succeeds, pgrep the
\* PIDs `pgrep -x claude` prints.
ScanDiscover(g, infoOk, pgrep) ==
    /\ scanPc[g] = "idle"
    /\ infoOk \subseteq api
    /\ pgrep \subseteq {pid \in api : Processes[pid].BinaryName = "claude"}
    /\ discovered' = [discovered EXCEPT ![g] = Discover(infoOk, pgrep)]
    /\ listed' = [listed EXCEPT ![g] = infoOk]
    /\ scanPc' = [scanPc EXCEPT ![g] = "merge"]
    /\ enumLog' = Append(enumLog, [by |-> g, observed |-> Discover(infoOk, pgrep)])
    /\ UNCHANGED <<moreVars, tuiVars, recvVars, storeVars, now, alertVars, mainVars, api, current, seen, exited, scanLog>>

\* if !s.seen[pid] { info.IsNew = true }
IsNewPid(pid) == pid \notin seen

\* Scan, under s.mu: flag the new PIDs, move the vanished ones to s.exited,
\* record the discovered ones as seen, replace s.current, return listAllLocked.
ScanMerge(g) ==
    /\ scanPc[g] = "merge"
    /\ LET gone == DOMAIN current \ discovered[g]
           cur == [pid \in discovered[g] |-> ProcessInfo(pid, IsNewPid(pid), FALSE)]
           ex == [pid \in DOMAIN exited \cup gone |->
                    IF pid \in gone THEN ProcessInfo(pid, FALSE, TRUE) ELSE exited[pid]]
       IN  /\ current' = cur
           /\ exited' = ex
           /\ seen' = seen \cup discovered[g]
           /\ scanLog' = Append(scanLog, [by |-> g, failed |-> FALSE, listed |-> listed[g],
                                           observed |-> discovered[g],
                                           result |-> listAllLocked(cur, ex)])
    /\ scanPc' = [scanPc EXCEPT ![g] = "idle"]
    /\ discovered' = [discovered EXCEPT ![g] = {}]
    /\ listed' = [listed EXCEPT ![g] = {}]
    /\ UNCHANGED <<moreVars, tuiVars, recvVars, storeVars, now, alertVars, mainVars, api, enumLog>>

\* ------------------------------------------------------------------ package receiver

\* An OTLP AnyValue: a string, an int64 (its decimal digits), a bool, an
\* array, or a message with no value set.
Str(s) == [kind |-> "string", v |-> s]
IntVal(digits) == [kind |-> "int", v |-> digits]
BoolVal(b) == [kind |-> "bool", v |-> b]
ArrayVal(elems) == [kind |-> "array", v |-> elems]
NoValue == [kind |-> "none", v |-> ""]

KV(k, v) == [key |-> k, value |-> v]

Resource(attrs) == [present |-> TRUE, attrs |-> attrs]
NoResource == [present |-> FALSE, attrs |-> <<>>]

\* anyValueToString: the string itself, FormatInt, FormatBool, and %v of the
\* oneof wrapper for the rest, which is <nil> when no value is set.
anyValueToString(v) ==
    CASE v.kind \in {"string", "int", "bool"} -> v.v
      [] v.kind = "array" -> "&{" \o v.v \o "}"
      [] v.kind = "none" -> "<nil>"

\* The first position of key k in a list of KeyValues; 0 if there is none.
FirstIndex(kvs, k) ==
    LET at == {i \in 1..Len(kvs) : kvs[i].key = k}
    IN  IF at = {} THEN 0 ELSE CHOOSE i \in at : \A j \in at : i <= j

\* Seeded bug: the attributes of the data point or log record are searched first.
extractSessionID_OwnFirst(resource, attrs) ==
    LET r == IF resource.present THEN FirstIndex(resource.attrs, "session.id") ELSE 0
        a == FirstIndex(attrs, "session.id")
    IN  IF a # 0 THEN anyValueToString(attrs[a].value)
        ELSE IF r # 0 THEN anyValueToString(resource.attrs[r].value)
        ELSE ""

extractSessionID(resource, attrs) ==
    LET r == IF resource.present THEN FirstIndex(resource.attrs, "session.id") ELSE 0
        a == FirstIndex(attrs, "session.id")
    IN  IF r # 0 THEN anyValueToString(resource.attrs[r].value)
        ELSE IF a # 0 THEN anyValueToString(attrs[a].value)
        ELSE ""

\* kvToMap: a later KeyValue overwrites an earlier one with the same key.
kvToMap(kvs) ==
    [k \in {kvs[i].key : i \in 1..Len(kvs)} |->
        LET at == {i \in 1..Len(kvs) : kvs[i].key = k}
        IN  anyValueToString(kvs[CHOOSE i \in at : \A j \in at : j <= i].value)]

\* A LogRecord: of its fields the receiver reads these four.
LogRecord(t, eventName, body, attrs) ==
    [TimeUnixNano |-> t, EventName |-> eventName, Body |-> body, attrs |-> attrs]
NoBody == [present |-> FALSE, value |-> NoValue]
Body(v) == [present |-> TRUE, value |-> v]

\* An ExportLogsServiceRequest with one ResourceLogs and one ScopeLogs.
LogsRequest(resource, records) == [resource |-> resource, records |-> records]

\* processLogExport: the event name, EventName or else a string body.
EventNameOf(lr) ==
    IF lr.EventName = "" /\ lr.Body.present /\ lr.Body.value.kind = "string"
    THEN lr.Body.value.v
    ELSE lr.EventName

\* processLogExport: the AddEvent calls it makes, in order; ts = 0 stands
\* for time.Now() at the call.
processLogExport(req) ==
    [i \in 1..Len(req.records) |->
        [op |-> "AddEvent",
         sid |-> extractSessionID(req.resource, req.records[i].attrs),
         name |-> EventNameOf(req.records[i]),
         value |-> 0,
         attrs |-> kvToMap(req.records[i].attrs),
         ts |-> req.records[i].TimeUnixNano]]

\* An ExportMetricsServiceRequest with one Sum metric of one data point.
MetricsRequest(resource, name, attrs, value, t) ==
    [kind |-> "grpc", resource |-> resource, name |-> name, attrs |-> attrs,
     value |-> value, TimeUnixNano |-> t]

\* extractMetrics: the AddMetric calls it makes.
extractMetrics(req) ==
    << [op |-> "AddMetric",
        sid |-> extractSessionID(req.resource, req.attrs),
        name |-> req.name,
        value |-> req.value,
        attrs |-> kvToMap(req.attrs),
        ts |-> req.TimeUnixNano] >>

\* fmt.Sscanf(s, "%d", &val) on the digit strings used here; val stays 0
\* when nothing is scanned.
Sscanf(s) == IF s \in {"42", "7"} THEN s ELSE "0"

\* A jsonAnyValue after json.Unmarshal: the one field of the object that is
\* set, or no field the struct knows.
JsonValue(field, v) == [field |-> field, v |-> v]

jsonValueToAnyValue(j) ==
    CASE j.field = "stringValue" -> Str(j.v)
      [] j.field = "intValue" -> IntVal(Sscanf(j.v))
      [] j.field = "boolValue" -> BoolVal(j.v)
      [] OTHER -> Str("")

jsonAttrToKV(attr) == KV(attr.key, jsonValueToAnyValue(attr.value))

\* decodeLogsJSON, after json.Unmarshal has filled the json structs.
decodeLogsJSON(raw) ==
    LogsRequest(
        [present |-> raw.resource.present,
         attrs |-> [i \in 1..Len(raw.resource.attrs) |-> jsonAttrToKV(raw.resource.attrs[i])]],
        [i \in 1..Len(raw.records) |->
            LET lr == raw.records[i]
            IN  LogRecord(lr.TimeUnixNano, lr.EventName,
                          IF lr.Body.present THEN Body(jsonValueToAnyValue(lr.Body.value))
                          ELSE NoBody,
                          [n \in 1..Len(lr.attrs) |-> jsonAttrToKV(lr.attrs[n])])])

\* A request body: the protobuf encoding of a request, a JSON document of
\* the shape of jsonExportLogsRequest, no bytes at all, or bytes that are
\* neither.
ProtoBody(req) == [enc |-> "proto", req |-> req]
JsonBody(raw) == [enc |-> "json", req |-> raw]
EmptyBody == [enc |-> "empty", req |-> LogsRequest(NoResource, <<>>)]
GarbageBody == [enc |-> "garbage", req |-> LogsRequest(NoResource, <<>>)]

DecodeError == [err |-> TRUE, req |-> LogsRequest(NoResource, <<>>)]
Decoded(req) == [err |-> FALSE, req |-> req]

\* decodeLogsRequest: JSON for application/json, protobuf for every other
\* content type; no bytes are the empty protobuf message and not a JSON document.
decodeLogsRequest(contentType, body) ==
    IF contentType = "application/json"
    THEN IF body.enc = "json" THEN Decoded(decodeLogsJSON(body.req)) ELSE DecodeError
    ELSE IF body.enc \in {"proto", "empty"} THEN Decoded(body.req) ELSE DecodeError

HttpRequest(method, contentType, body) ==
    [kind |-> "http", method |-> method, contentType |-> contentType, body |-> body]

\* The store calls handler w has issued for the request it is handling.
CallsBy(w) == SelectSeq(SubSeq(issued, handling[w].from + 1, Len(issued)), LAMBDA c : c.w = w)

\* An answer, with what the handler stored on the way (a ghost).
Response(w, req, status, body) ==
    [req |-> req, status |-> status, body |-> body,
     stored |-> IF handling[w] = Nil THEN <<>>
                ELSE [i \in 1..Len(CallsBy(w)) |->
                        LET c == CallsBy(w)[i]
                        IN  [op |-> c.op, sid |-> c.sid, name |-> c.x.Name,
                             attrs |-> Deref(heap, c.x.Attributes), ts |-> c.x.Timestamp]]]

Handling(req, calls) == [req |-> req, calls |-> calls, from |-> Len(issued)]

\* Seeded bug: every method is served.
MethodAllowed_Any(method) == TRUE

\* handleLogs: req.Method != http.MethodPost is answered 405.
MethodAllowed(method) == method = "POST"

\* HTTPReceiver.handleLogs, up to the first store call or the error answer.
handleLogs(w, req) ==
    /\ handling[w] = Nil
    /\ pc[w] = "idle"
    /\ IF ~MethodAllowed(req.method)
       THEN /\ respLog' = Append(respLog, Response(w, req, 405, "method not allowed"))
            /\ UNCHANGED handling
       ELSE LET d == decodeLogsRequest(req.contentType, req.body)
            IN  IF d.err
                THEN /\ respLog' = Append(respLog, Response(w, req, 400, "invalid payload"))
                     /\ UNCHANGED handling
                ELSE /\ handling' = [handling EXCEPT ![w] = Handling(req, processLogExport(d.req))]
                     /\ UNCHANGED respLog
    /\ UNCHANGED <<moreVars, tuiVars, storeVars, now, alertVars, scanVars, mainVars>>

\* GRPCReceiver.Export, up to the first store call.
Export(w, req) ==
    /\ handling[w] = Nil
    /\ pc[w] = "idle"
    /\ handling' = [handling EXCEPT ![w] = Handling(req, extractMetrics(req))]
    /\ UNCHANGED <<moreVars, tuiVars, storeVars, now, alertVars, scanVars, mainVars, respLog>>

\* The next store call of the handler: store.AddEvent or store.AddMetric.
StoreCall(w) ==
    /\ handling[w] # Nil
    /\ Len(CallsBy(w)) < Len(handling[w].calls)
    /\ LET c == handling[w].calls[Len(CallsBy(w)) + 1]
           ts == IF c.ts = 0 THEN now ELSE c.ts
       IN  IF c.op = "AddEvent"
           THEN AddEventLock(w, c.sid, c.name, c.attrs, ts)
           ELSE AddMetricLock(w, c.sid, c.name, c.value, c.attrs, ts)

\* The handler returns: 200 with body {} over HTTP, the empty response over gRPC.
Respond(w) ==
    /\ handling[w] # Nil
    /\ pc[w] = "idle"
    /\ Len(CallsBy(w)) = Len(handling[w].calls)
    /\ respLog' = Append(respLog, IF handling[w].req.kind = "http"
                                   THEN Response(w, handling[w].req, 200, "{}")
                                   ELSE Response(w, handling[w].req, 0, ""))
    /\ handling' = [handling EXCEPT ![w] = Nil]
    /\ UNCHANGED <<moreVars, tuiVars, storeVars, now, alertVars, scanVars, mainVars>>

\* ------------------------------------------------------------------ package tui

\* DefaultKeyMap: the keys of the bindings the model reads here.
Quit == {"q"}
Tab == {"tab"}
Enter == {"enter"}
Escape == {"esc"}
Filter == {"f"}
KillSwitch == {"ctrl+k"}
Confirm == {"y", "Y"}
Deny == {"n", "N"}
FocusAlerts == {"a"}
FocusEvents == {"e"}
Up == {"up", "k"}
Down == {"down", "j"}
ScrollUp == {"pgup", "K"}
ScrollDown == {"pgdown", "J"}

\* m.state.ListSessions(), as the dashboard lists the sessions.
getSessions == <<"s1", "s2">>

\* getFilteredEvents: the provider's events, those of m.eventFilter.SessionID
\* when a session is selected (the two are set together); the type filter
\* is as NewFilterMenu leaves it.  An event is written as its session id.
getFilteredEvents(m, fd) ==
    IF m.selectedSession # ""
    THEN SelectSeq(fd.events, LAMBDA sid : sid = m.selectedSession)
    ELSE fd.events

\* getActiveAlerts: the provider's alerts, those of the selected session
\* and the global ones when a session is selected.  An alert is written as
\* its session id.
getActiveAlerts(m, fd) ==
    IF m.selectedSession # ""
    THEN SelectSeq(fd.alerts, LAMBDA sid : sid = m.selectedSession \/ sid = "")
    ELSE fd.alerts

\* What a handler returns: the new model, and the signals it sent on the way.
Handled(m, sigs) == [m |-> m, sigs |-> sigs]

\* initiateKillSwitch: pause the process of the session under the cursor and
\* open the confirmation; pid is 0 when there is no such process.
initiateKillSwitch(m, pid) ==
    IF pid = 0 THEN Handled(m, <<>>)
    ELSE Handled([m EXCEPT !.killConfirm = TRUE, !.killTargetPID = pid],
                 << <<"SIGSTOP", pid>> >>)

\* handleKillConfirmKey: Y terminates the paused process, N and Esc resume
\* it, either closes the dialog; any other key leaves the dialog open.
handleKillConfirmKey(m, k) ==
    IF k \in Confirm
    THEN Handled([m EXCEPT !.killConfirm = FALSE], << <<"SIGKILL", m.killTargetPID>> >>)
    ELSE IF k \in Deny \cup Escape
    THEN Handled([m EXCEPT !.killConfirm = FALSE], << <<"SIGCONT", m.killTargetPID>> >>)
    ELSE Handled(m, <<>>)

\* handleDetailOverlayKey: Esc and Enter close the overlay, the arrow and
\* page keys scroll it, every other key is dropped.
handleDetailOverlayKey(m, k) ==
    IF k \in Escape \cup Enter THEN [m EXCEPT !.detailOverlay = FALSE, !.detailScrollPos = 0]
    ELSE IF k \in Up \cup ScrollUp
    THEN [m EXCEPT !.detailScrollPos = IF @ > 0 THEN @ - 1 ELSE @]
    ELSE IF k \in Down \cup ScrollDown THEN [m EXCEPT !.detailScrollPos = @ + 1]
    ELSE m

handleFilterMenuKey(m, k) ==
    IF k \in Escape THEN [m EXCEPT !.filterMenuActive = FALSE] ELSE m

handleStartupKey(m, k) ==
    IF k \in Enter THEN [m EXCEPT !.view = "dashboard"] ELSE m

\* handleSessionsPanelKey: the cursor moves within the session list, Enter
\* selects the session under it, Esc clears the selection.
handleSessionsPanelKey(m, k) ==
    IF k \in Up THEN [m EXCEPT !.sessionCursor = IF @ > 0 THEN @ - 1 ELSE @]
    ELSE IF k \in Down
    THEN [m EXCEPT !.sessionCursor = IF @ < Len(getSessions) - 1 THEN @ + 1 ELSE @]
    ELSE IF k \in Enter
    THEN IF m.sessionCursor >= 0 /\ m.sessionCursor < Len(getSessions)
         THEN [m EXCEPT !.selectedSession = getSessions[m.sessionCursor + 1]]
         ELSE m
    ELSE IF k \in Escape THEN [m EXCEPT !.selectedSession = ""]
    ELSE m

\* handleEventsPanelKey: the cursor moves within the events shown now, Enter
\* opens the detail of the event under it, if there is one; Esc gives the
\* focus back.
handleEventsPanelKey(m, k, fd) ==
    LET evts == getFilteredEvents(m, fd)
    IN  IF k \in Up \cup ScrollUp
        THEN [m EXCEPT !.eventCursor = IF @ > 0 THEN @ - 1 ELSE @]
        ELSE IF k \in Down \cup ScrollDown
        THEN [m EXCEPT !.eventCursor = IF @ < Len(evts) - 1 THEN @ + 1 ELSE @]
        ELSE IF k \in Enter
        THEN IF m.eventCursor >= 0 /\ m.eventCursor < Len(evts)
             THEN [m EXCEPT !.detailOverlay = TRUE, !.detailScrollPos = 0]
             ELSE m
        ELSE IF k \in Escape THEN [m EXCEPT !.panelFocus = "sessions"]
        ELSE m

\* handleAlertsPanelKey: the same over the alerts shown now.
handleAlertsPanelKey(m, k, fd) ==
    LET activeAlerts == getActiveAlerts(m, fd)
    IN  IF k \in Up \cup ScrollUp
        THEN [m EXCEPT !.alertCursor = IF @ > 0 THEN @ - 1 ELSE @]
        ELSE IF k \in Down \cup ScrollDown
        THEN [m EXCEPT !.alertCursor = IF @ < Len(activeAlerts) - 1 THEN @ + 1 ELSE @]
        ELSE IF k \in Enter
        THEN IF m.alertCursor >= 0 /\ m.alertCursor < Len(activeAlerts)
             THEN [m EXCEPT !.detailOverlay = TRUE, !.detailScrollPos = 0]
             ELSE m
        ELSE IF k \in Escape THEN [m EXCEPT !.panelFocus = "sessions"]
        ELSE m

\* handleDashboardKey: the keys of the dashboard whatever the focus, then
\* the keys of the panel that has it.  Focusing the alerts puts the cursor
\* on the first, focusing the events on the last when there is one.
handleDashboardKey(m, k, fd) ==
    IF k \in Tab THEN [m EXCEPT !.panelFocus = "sessions", !.view = "stats"]
    ELSE IF k \in Filter THEN [m EXCEPT !.filterMenuActive = TRUE]
    ELSE IF k \in FocusAlerts
    THEN IF m.panelFocus # "alerts"
         THEN [m EXCEPT !.panelFocus = "alerts", !.alertCursor = 0]
         ELSE m
    ELSE IF k \in FocusEvents
    THEN IF m.panelFocus # "events"
         THEN LET evts == getFilteredEvents(m, fd)
              IN  [m EXCEPT !.panelFocus = "events",
                            !.eventCursor = IF Len(evts) > 0 THEN Len(evts) - 1 ELSE @]
         ELSE m
    ELSE CASE m.panelFocus = "events" -> handleEventsPanelKey(m, k, fd)
           [] m.panelFocus = "alerts" -> handleAlertsPanelKey(m, k, fd)
           [] OTHER -> handleSessionsPanelKey(m, k)

handleStatsKey(m, k) ==
    IF k \in Tab THEN [m EXCEPT !.view = "dashboard"] ELSE m

\* Seeded bug: the open confirmation does not take the keys first.
DialogTakesKey_Never(m) == FALSE

\* handleKey: the kill confirmation dialog takes priority.
DialogTakesKey(m) == m.killConfirm

\* Seeded bug: the open overlay does not take the keys first.
OverlayTakesKey_Never(m) == FALSE

\* handleKey: the detail overlay takes priority when active.
OverlayTakesKey(m) == m.detailOverlay

\* handleKey: the dialog, the overlay and the menu come first, then the
\* global bindings, then the keys of the view.
handleKey(m, k, pid, fd) ==
    IF DialogTakesKey(m) THEN handleKillConfirmKey(m, k)
    ELSE IF OverlayTakesKey(m) THEN Handled(handleDetailOverlayKey(m, k), <<>>)
    ELSE IF m.filterMenuActive THEN Handled(handleFilterMenuKey(m, k), <<>>)
    ELSE IF k \in Quit THEN Handled([m EXCEPT !.quitting = TRUE], <<>>)
    ELSE IF k \in KillSwitch /\ m.view \in {"dashboard", "stats"}
    THEN initiateKillSwitch(m, pid)
    ELSE Handled(CASE m.view = "startup" -> handleStartupKey(m, k)
                   [] m.view = "dashboard" -> handleDashboardKey(m, k, fd)
                   [] m.view = "stats" -> handleStatsKey(m, k),
                 <<>>)

\* The process after a signal: SIGSTOP pauses a running process, SIGCONT
\* resumes a paused one, SIGKILL ends it.
Signalled(st, sig) ==
    CASE st = "terminated" -> st
      [] sig = "SIGKILL" -> "terminated"
      [] sig = "SIGSTOP" -> "paused"
      [] sig = "SIGCONT" -> "running"

MaxScroll == 2

\* Update on a tea.KeyMsg, until tea.Quit ends the program. pid is the
\* process of the session under the cursor, 0 if it has none running.
KeyMsg(k, pid) ==
    /\ ~tuiModel.quitting
    /\ pid # 0 => procState[pid] = "running"
    /\ LET r == handleKey(tuiModel, k, pid, feed)
       IN  /\ r.m.detailScrollPos <= MaxScroll
           /\ tuiModel' = r.m
           /\ sigLog' = sigLog \o r.sigs
           /\ procState' = IF r.sigs = <<>> THEN procState
                           ELSE [procState EXCEPT ![r.sigs[1][2]] = Signalled(@, r.sigs[1][1])]
    /\ lastKey' = k
    /\ UNCHANGED <<moreVars, feed, recvVars, storeVars, now, alertVars, scanVars, mainVars>>

\* The event provider has one more event, of session sid.
EventArrives(sid) ==
    /\ feed' = [feed EXCEPT !.events = Append(@, sid)]
    /\ UNCHANGED <<moreVars, tuiModel, procState, sigLog, lastKey, recvVars, storeVars, now, alertVars, scanVars, mainVars>>

\* The alert provider has one more alert, of session sid or global.
AlertFires(sid) ==
    /\ feed' = [feed EXCEPT !.alerts = Append(@, sid)]
    /\ UNCHANGED <<moreVars, tuiModel, procState, sigLog, lastKey, recvVars, storeVars, now, alertVars, scanVars, mainVars>>

\* ------------------------------------------------------------------ package main

GRPCPort == 4317
HTTPPort == 4318

\* fmt.Errorf("port %d already in use", port)
PortInUse(port) ==
    IF port = GRPCPort THEN "port 4317 already in use" ELSE "port 4318 already in use"

\* GRPCReceiver.Start and HTTPReceiver.Start: net.Listen fails when the
\* port is taken, else the server serves in a goroutine of its own.
\* Neither reads ctx.
Listen(port, taken, server) ==
    IF port \in taken
    THEN [server |-> server, err |-> PortInUse(port)]
    ELSE [server |-> "serving", err |-> ""]

\* Seeded bug: GRPCReceiver.Stop leaves the server as it is.
GRPCStop_Noop(server) == server

\* GRPCReceiver.Stop: GracefulStop when r.server is set.
GRPCStop(server) == IF server = "serving" THEN "stopped" ELSE server

\* Receiver.Start(ctx): the gRPC receiver, then the HTTP one; when the
\* second fails the first is stopped before the error is returned.
ReceiverStart ==
    LET g == Listen(GRPCPort, inUse, grpc)
        h == Listen(HTTPPort, inUse, http)
    IN  /\ IF g.err # ""
           THEN /\ startLog' = Append(startLog, [err |-> g.err])
                /\ UNCHANGED <<grpc, http>>
           ELSE IF h.err # ""
           THEN /\ grpc' = GRPCStop(g.server)
                /\ startLog' = Append(startLog, [err |-> h.err])
                /\ UNCHANGED http
           ELSE /\ grpc' = g.server
                /\ http' = h.server
                /\ startLog' = Append(startLog, [err |-> ""])
        /\ UNCHANGED <<statusVars, cfgVars, evalVars, lifeVars, inUse, tuiVars, recvVars, storeVars, now, alertVars, scanVars,
                       topDone, scanLoop, stopCh>>

\* Another process binds a port this program is not listening on, or
\* gives one up.
OtherBinds(port) ==
    /\ port \notin inUse
    /\ port = GRPCPort => grpc # "serving"
    /\ port = HTTPPort => http # "serving"
    /\ inUse' = inUse \cup {port}
    /\ UNCHANGED <<statusVars, cfgVars, evalVars, lifeVars, startLog, tuiVars, recvVars, storeVars, now, alertVars, scanVars, mainVars>>

OtherCloses(port) ==
    /\ port \in inUse
    /\ inUse' = inUse \ {port}
    /\ UNCHANGED <<statusVars, cfgVars, evalVars, lifeVars, startLog, tuiVars, recvVars, storeVars, now, alertVars, scanVars, mainVars>>

\* Receiver.Stop: GracefulStop of the gRPC server, Shutdown of the HTTP server.
ReceiverStop ==
    /\ grpc' = GRPCStop(grpc)
    /\ http' = IF http = "serving" THEN "stopped" ELSE http
    /\ UNCHANGED <<moreVars, tuiVars, recvVars, storeVars, now, alertVars, scanVars, topDone, scanLoop, stopCh>>

\* StartPeriodicScan: launch the goroutine that scans at once and on every tick.
StartPeriodicScan ==
    /\ scanLoop' = "running"
    /\ UNCHANGED <<moreVars, tuiVars, recvVars, storeVars, now, alertVars, scanVars, topDone, grpc, http, stopCh>>

\* The goroutine has finished the scan it starts with.
FirstScanDone == \E n \in 1..Len(scanLog) : scanLog[n].by = "periodic"

\* The goroutine of StartPeriodicScan, case <-s.stopCh: return.
ScanLoopExit ==
    /\ scanLoop = "running"
    /\ scanPc["periodic"] = "idle"
    /\ FirstScanDone
    /\ stopCh
    /\ scanLoop' = "exited"
    /\ UNCHANGED <<moreVars, tuiVars, recvVars, storeVars, now, alertVars, scanVars, topDone, grpc, http, stopCh>>

\* Scanner.Stop: close(s.stopCh).
ScannerStop ==
    /\ ~stopCh
    /\ stopCh' = TRUE
    /\ UNCHANGED <<moreVars, tuiVars, recvVars, storeVars, now, alertVars, scanVars, topDone, grpc, http, scanLoop>>

\* Scanner.Stop, <-s.done: the channel is closed by the goroutine of
\* StartPeriodicScan when it returns, and by nothing else.
ScannerStopMayReturn == scanLoop = "exited"

\* Scanner.Stop as one of its callers runs it: close(s.stopCh).
ScannerStopClose(c) ==
    /\ scanStop[c] = "idle"
    /\ IF stopCh
       THEN /\ panics' = Append(panics, [by |-> c, in |-> "Scanner.Stop", what |-> CloseOfClosedChannel])
            /\ scanStop' = [scanStop EXCEPT ![c] = "panicked"]
            /\ UNCHANGED stopCh
       ELSE /\ stopCh' = TRUE
            /\ scanStop' = [scanStop EXCEPT ![c] = "waiting"]
            /\ UNCHANGED panics
    /\ UNCHANGED <<bindVars, statusVars, cfgVars, evalVars, earlier, tuiVars, recvVars, storeVars, now, alertVars,
                   scanVars, topDone, grpc, http, scanLoop>>

\* Scanner.Stop, the receive from s.done and the return.
ScannerStopWait(c) ==
    /\ scanStop[c] = "waiting"
    /\ ScannerStopMayReturn
    /\ scanStop' = [scanStop EXCEPT ![c] = "returned"]
    /\ UNCHANGED <<bindVars, statusVars, cfgVars, evalVars, earlier, panics, tuiVars, recvVars, storeVars, now,
                   alertVars, scanVars, mainVars>>

\* main's cancel(): ctx is done, and with it the context Engine.Start derived.
Cancel ==
    /\ ~topDone
    /\ topDone' = TRUE
    /\ ctxDone' = (cancel = "set" \/ ctxDone)
    /\ UNCHANGED <<moreVars, tuiVars, recvVars, storeVars, now, scanVars, grpc, http, scanLoop, stopCh,
                   alerts, lastFired, notifier, notified, cancel, done, evaluator, stop, evalLog,
                   exceededSince, failures, lastProcessed, warnedModels, warnLog>>

MaxScans == 3

\* The PIDs of the machine's processes.
ScanPids == {4821, 7001}

\* The scans finished or under way.
ScansBegun == Len(scanLog) + Cardinality({g \in Scanners : scanPc[g] = "merge"})

ScanNext ==
    \/ \E pid \in ScanPids : Spawn(pid)
    \/ \E pid \in ScanPids : Exit(pid)
    \/ \E g \in Scanners : ScansBegun < MaxScans /\ ScanListFails(g)
    \/ \E g \in Scanners, infoOk \in SUBSET ScanPids, pgrep \in SUBSET ScanPids :
          ScansBegun < MaxScans /\ ScanDiscover(g, infoOk, pgrep)
    \/ \E g \in Scanners : ScanMerge(g)

SpecScan == Init /\ [][ScanNext]_vars

\* C20 (as claimed): a scan reports a PID with is_new = true only if it
\* observes the PID and no scan before it did.
C20_NewOnlyOnFirstObservation ==
    \A n \in 1..Len(scanLog) : \A info \in scanLog[n].result :
        info.IsNew =>
            /\ info.PID \in scanLog[n].observed
            /\ \A m \in 1..(n - 1) : info.PID \notin scanLog[m].observed

\* The PIDs scan n reports as live, and as exited.
LiveIn(n) == {info.PID : info \in {i \in scanLog[n].result : ~i.Exited}}
ExitedIn(n) == {info.PID : info \in {i \in scanLog[n].result : i.Exited}}

\* pid was live in the scan before scan n, scan n listed the processes
\* without finding it, and no scan from n to m found it.
Vanished(pid, n, m) ==
    /\ n > 1 /\ n <= m /\ m <= Len(scanLog)
    /\ pid \in LiveIn(n - 1)
    /\ ~scanLog[n].failed
    /\ \A k \in n..m : pid \notin scanLog[k].observed

\* C21: a PID that was live in the previous scan and is absent from the
\* current one is reported as exited, and not as live, by the current scan
\* and by every later scan for as long as it stays absent.
C21_ExitedPoolPreserved ==
    \A pid \in ScanPids : \A n \in 1..Len(scanLog) : \A m \in n..Len(scanLog) :
        Vanished(pid, n, m) => pid \in ExitedIn(m) /\ pid \notin LiveIn(m)

\* C21 witness: a PID vanished in the second scan, stayed absent in the third,
\* and the third scan still reports it as exited.
C21_Witness ==
    \E pid \in ScanPids :
        /\ Vanished(pid, 2, 3)
        /\ pid \in ExitedIn(3)

\* ------------------------------------------------------------------ overlapping scans

\* No Scan is under way.
AllReturned == \A g \in Scanners : scanPc[g] = "idle"

\* C31 (as claimed): when the Scan calls have returned, overlapping or not,
\* the live set is what the call that enumerated the processes last found,
\* and none of the processes it found is reported as exited.
C31_LatestEnumerationWins ==
    AllReturned /\ enumLog # <<>> =>
        LET latest == enumLog[Len(enumLog)].observed
            result == listAllLocked(current, exited)
        IN  /\ DOMAIN current = latest
            /\ \A info \in result : info.PID \in latest => ~info.Exited

\* No two entries of a list of processes have the same PID.
OncePerPid(result) == \A a, b \in result : a.PID = b.PID => a = b

\* C35: every list a Scan returned, and the list GetProcesses returns in
\* any state, has each PID at most once, so no PID is both live and exited
\* in it.
C35_EachPidOnce ==
    /\ \A n \in 1..Len(scanLog) : OncePerPid(scanLog[n].result)
    /\ OncePerPid(listAllLocked(current, exited))

\* C35 witness: a PID of the exited pool is live again, and the scan that
\* merged last reports it, as live.
C35_Witness ==
    /\ scanLog # <<>>
    /\ \E pid \in DOMAIN exited \cap DOMAIN current :
           \E info \in scanLog[Len(scanLog)].result : info.PID = pid /\ ~info.Exited

\* ------------------------------------------------------------------ stopping the scanner

MaxStopScans == 2

\* The goroutine of StartPeriodicScan: the scan it starts with.
FirstScan ==
    /\ scanLoop = "running"
    /\ ~FirstScanDone
    /\ \E infoOk \in SUBSET {4821} : ScanDiscover("periodic", infoOk, {})

\* The goroutine of StartPeriodicScan, case <-ticker.C: s.Scan().
TickScan ==
    /\ scanLoop = "running"
    /\ FirstScanDone
    /\ ScansBegun < MaxStopScans
    /\ \E infoOk \in SUBSET {4821} : ScanDiscover("periodic", infoOk, {})

\* main and the signal goroutine: StartPeriodicScan at most once, Stop by
\* either caller at any time.
StopNext ==
    \/ scanLoop = "none" /\ StartPeriodicScan
    \/ FirstScan
    \/ TickScan
    \/ ScanMerge("periodic")
    \/ ScanLoopExit
    \/ \E c \in StopCallers : ScannerStopClose(c)
    \/ \E c \in StopCallers : ScannerStopWait(c)
    \/ Spawn(4821)
    \/ Exit(4821)

\* The goroutine runs and a blocked receive returns when it can.
SpecStop ==
    /\ Init /\ [][StopNext]_vars
    /\ WF_vars(FirstScan)
    /\ WF_vars(ScanMerge("periodic"))
    /\ WF_vars(ScanLoopExit)
    /\ \A c \in StopCallers : WF_vars(ScannerStopWait(c))

\* C32 (as claimed): Scanner.Stop never panics and every call of it
\* returns, be it a second call or a call made when StartPeriodicScan
\* never ran.
C32_StopAlwaysReturns ==
    /\ [](panics = <<>>)
    /\ \A c \in StopCallers : (scanStop[c] # "idle") ~> (scanStop[c] = "returned")

\* ------------------------------------------------------------------ unreadable processes

MaxZombieScans == 2

\* A zombie claude, the two node processes and the desktop app.
ZombiePids == {6600, 5102, 5103, 5001}

ZombieNext ==
    \/ \E pid \in ZombiePids : Spawn(pid)
    \/ \E pid \in ZombiePids : Exit(pid)
    \/ ScansBegun < MaxZombieScans /\ ScanListFails("periodic")
    \/ \E infoOk \in SUBSET ZombiePids, pgrep \in SUBSET ZombiePids :
          ScansBegun < MaxZombieScans /\ ScanDiscover("periodic", infoOk, pgrep)
    \/ ScanMerge("periodic")

SpecZombie == Init /\ [][ZombieNext]_vars

\* A target process: the claude binary outside an .app bundle, or node
\* running the @anthropic-ai/claude-code module.
IsTarget(pid) == isClaude(Processes[pid].BinaryName, Processes[pid].args)

\* C22 (as claimed): a target process the scan got the basic info of, whose
\* argv and environment cannot be read, is in the scan's result as a live
\* entry with env_readable = false.
C22_UnreadableKept ==
    \A n \in 1..Len(scanLog) : \A pid \in scanLog[n].listed :
        IsTarget(pid) /\ Processes[pid].envErr =>
            \E info \in scanLog[n].result :
                info.PID = pid /\ ~info.Exited /\ ~info.EnvReadable

\* ------------------------------------------------------------------ counters

MaxCounterWrites == 3

NoAttrs == EmptyMap
TypeInput == [k \in {"type"} |-> "input"]
TypeOutput == [k \in {"type"} |-> "output"]
ModelAndType == [k \in {"model", "type"} |-> IF k = "model" THEN "m1" ELSE "input"]
ModelWithComma == [k \in {"model"} |-> "m1,type=input"]

\* The samples the counter workload sends: <<name, value in halves, attributes>>.
CounterSamples ==
    ({CostUsage} \X {-2, 1, 2, 4} \X {NoAttrs})
    \cup ({TokenUsage} \X {1, 3} \X {TypeInput})
    \cup ({TokenUsage} \X {2} \X {TypeOutput})
    \cup ({TokenUsage} \X {2, 6} \X {ModelAndType})
    \cup ({TokenUsage} \X {4} \X {ModelWithComma})
    \cup ({ActiveTimeTotal} \X {2, 4} \X {NoAttrs})
    \cup ({SessionCount} \X {2} \X {NoAttrs})

CounterCall ==
    /\ Len(issued) < MaxCounterWrites
    /\ \E sid \in {"s1", ""}, x \in CounterSamples :
          /\ sid = "" => x[1] = CostUsage
          /\ AddMetricLock("w1", sid, x[1], x[2], x[3], 1)

CounterNext ==
    \/ CounterCall
    \/ AddMetricBody("w1")

SpecCounter == Init /\ [][CounterNext]_vars

\* ------------------------------------------------------------------ counter claims

\* The counter key of a stored metric.
KeyOf(hp, m) == metricKey(m.Name, Deref(hp, m.Attributes))

\* The index of the latest sample before ms[i] under the key of ms[i]; 0 if none.
PrevIndex(hp, ms, i) ==
    LET same == {j \in 1..(i - 1) : KeyOf(hp, ms[j]) = KeyOf(hp, ms[i])}
    IN  IF same = {} THEN 0 ELSE CHOOSE j \in same : \A k \in same : k <= j

\* The delta the counter-reset rule asks for at sample i of the history ms.
RuleDelta(hp, ms, i) ==
    LET j == PrevIndex(hp, ms, i)
    IN  IF j = 0 THEN ms[i].Value
        ELSE IF ms[i].Value < ms[j].Value THEN ms[i].Value
        ELSE ms[i].Value - ms[j].Value

Max(a, b) == IF a >= b THEN a ELSE b

\* The term the law "v0 + sum of max(vi - v(i-1), vi)" gives for sample i.
MaxLawTerm(hp, ms, i) ==
    LET j == PrevIndex(hp, ms, i)
    IN  IF j = 0 THEN ms[i].Value
        ELSE Max(ms[i].Value - ms[j].Value, ms[i].Value)

RECURSIVE SumTo(_, _)
SumTo(f, n) == IF n = 0 THEN 0 ELSE f[n] + SumTo(f, n - 1)

\* The session as it is before its first write: no bucket reads as all zero.
Before(sid) == IF sid \in DOMAIN sessions THEN sessions[sid] ELSE NewSession(sid, 0, 0)

\* C1: every add_metric adds to the aggregate of its metric name the delta of
\* the counter-reset rule: the sample value on the first sample of the key or
\* when the value is lower than the previous sample of the key, value minus
\* previous otherwise (whole tokens for total_tokens); the other aggregates
\* stay as they are.
C1_AddMetricAddsRuleDelta ==
    [][\A w \in Writers :
          (pc[w] = "metric" /\ pc'[w] = "idle") =>
              LET sid == call[w].sid
                  m == call[w].m
                  hist == Append(Before(sid).Metrics, m)
                  d == RuleDelta(heap, hist, Len(hist))
              IN  /\ sessions'[sid].TotalCost - Before(sid).TotalCost
                        = IF m.Name = CostUsage THEN d ELSE 0
                  /\ sessions'[sid].TotalTokens - Before(sid).TotalTokens
                        = IF m.Name = TokenUsage THEN Int64Of(d) ELSE 0
                  /\ sessions'[sid].ActiveTime - Before(sid).ActiveTime
                        = IF m.Name = ActiveTimeTotal THEN DurationOf(d) ELSE 0]_vars

\* C1 witness: cost samples 1.0, 2.0, 0.5 on one key have given 1.0, 2.0, 2.5.
C1_Witness ==
    /\ "s1" \in DOMAIN sessions
    /\ Len(sessions["s1"].Metrics) = 3
    /\ \A i \in 1..3 : sessions["s1"].Metrics[i].Name = CostUsage
    /\ <<sessions["s1"].Metrics[1].Value, sessions["s1"].Metrics[2].Value,
         sessions["s1"].Metrics[3].Value>> = <<2, 4, 1>>
    /\ sessions["s1"].TotalCost = 5

\* C7 (as claimed): two metrics of one session with the same name and different
\* attribute maps have different counter keys, and the previous value kept for
\* a metric's key is the value of the latest sample with that name and those
\* attributes.
C7_DistinctAttrsDistinctKeys ==
    \A sid \in DOMAIN sessions :
        LET ms == sessions[sid].Metrics
            pv == heap[sessions[sid].PreviousValues]
            SameCounter(i, j) ==
                /\ ms[i].Name = ms[j].Name
                /\ Deref(heap, ms[i].Attributes) = Deref(heap, ms[j].Attributes)
        IN  \A i \in 1..Len(ms) :
                /\ \A j \in 1..Len(ms) :
                      (ms[i].Name = ms[j].Name /\ ~SameCounter(i, j))
                          => KeyOf(heap, ms[i]) # KeyOf(heap, ms[j])
                /\ (\A j \in (i + 1)..Len(ms) : ~SameCounter(i, j))
                      => pv[KeyOf(heap, ms[i])] = ms[i].Value

\* C8 (as claimed): under each counter key the contribution to total_cost is
\* v0 plus the sum of max(vi - v(i-1), vi); stated for the sequences a
\* cumulative counter can produce, those with no negative sample.
C8_MaxLaw ==
    \A sid \in DOMAIN sessions :
        LET ms == sessions[sid].Metrics
            term == [i \in 1..Len(ms) |->
                       IF ms[i].Name = CostUsage THEN MaxLawTerm(heap, ms, i) ELSE 0]
        IN  (\A i \in 1..Len(ms) : ms[i].Value >= 0)
                => sessions[sid].TotalCost = SumTo(term, Len(ms))

\* C8 (amended): total_cost is, summed over the counter keys, v0 plus the sum
\* over i >= 1 of (vi - v(i-1) if vi >= v(i-1), else vi); total_tokens is the
\* same sum with every term truncated to a whole number.
C8_ResetLaw ==
    \A sid \in DOMAIN sessions :
        LET ms == sessions[sid].Metrics
            cost == [i \in 1..Len(ms) |->
                       IF ms[i].Name = CostUsage THEN RuleDelta(heap, ms, i) ELSE 0]
            tokens == [i \in 1..Len(ms) |->
                         IF ms[i].Name = TokenUsage THEN Int64Of(RuleDelta(heap, ms, i)) ELSE 0]
        IN  /\ sessions[sid].TotalCost = SumTo(cost, Len(ms))
            /\ sessions[sid].TotalTokens = SumTo(tokens, Len(ms))

\* C8 witness: cost samples 2.0, 1.0, 2.0 on one key (a reset, then a rise).
C8_Witness ==
    /\ UnknownSessionID \in DOMAIN sessions
    /\ Len(sessions[UnknownSessionID].Metrics) = 3
    /\ <<sessions[UnknownSessionID].Metrics[1].Value, sessions[UnknownSessionID].Metrics[2].Value,
         sessions[UnknownSessionID].Metrics[3].Value>> = <<4, 2, 4>>
    /\ sessions[UnknownSessionID].TotalCost = 8

MaxSessionWrites == 3

Pids == {0, 1, 2}

SessionCall ==
    /\ Len(issued) < MaxSessionWrites
    /\ \E sid \in {"s1", "s2"} :
          \/ AddMetricLock("w1", sid, CostUsage, 2, NoAttrs, 1)
          \/ AddEventLock("w1", sid, UserPrompt, NoAttrs, 1)

SessionNext ==
    \/ SessionCall
    \/ AddMetricBody("w1")
    \/ AddEventBody("w1")
    \/ AddEventReturn("w1")
    \/ \E sid \in {"s1", "s2"}, pid \in Pids : UpdatePID(sid, pid)
    \/ \E pid \in Pids : MarkExited(pid)

SpecSession == Init /\ [][SessionNext]_vars

\* C36: a session whose exited flag is true keeps it true through every
\* AddMetric, AddEvent, UpdatePID and MarkExited.
C36_ExitedIsFinal ==
    [][\A sid \in DOMAIN sessions :
          sessions[sid].Exited => (sid \in DOMAIN sessions' /\ sessions'[sid].Exited)]_vars

\* C36 witness: an exited session whose PID is 0: MarkExited flags no
\* session of PID 0, so UpdatePID has run on it after it was flagged.
C36_Witness ==
    \E sid \in DOMAIN sessions : sessions[sid].Exited /\ sessions[sid].PID = 0

\* ------------------------------------------------------------------ timestamps

MaxTimedWrites == 3
MaxNow == 3

Stamps == {0, 1, 2, 3}

TimedCall ==
    /\ Len(issued) < MaxTimedWrites
    /\ \E sid \in {"s1", ""}, ts \in Stamps :
          \/ AddMetricLock("w1", sid, CostUsage, 2, NoAttrs, ts)
          \/ AddEventLock("w1", sid, UserPrompt, NoAttrs, ts)

TimedNext ==
    \/ TimedCall
    \/ AddMetricBody("w1")
    \/ AddEventBody("w1")
    \/ AddEventReturn("w1")
    \/ Tick(MaxNow)

SpecTimed == Init /\ [][TimedNext]_vars

\* C2 (as claimed): a write carrying a non-zero timestamp leaves last_event_at
\* of its session greater than or equal to what it was before the write.
C2_LastEventAtMonotonic ==
    [][\A w \in Writers :
          (/\ pc[w] \in {"metric", "event"}
           /\ pc'[w] # pc[w]
           /\ (IF pc[w] = "metric" THEN call[w].m.Timestamp ELSE call[w].e.Timestamp) # 0)
          => sessions'[call[w].sid].LastEventAt >= Before(call[w].sid).LastEventAt]_vars

\* C10: no step flags a session whose pid is 0 as exited; a mark_exited(0)
\* changes no session and a mark_exited(p) changes no session whose pid is 0.
C10_PidZeroNeverMarked ==
    [][/\ \A sid \in DOMAIN sessions :
             sessions[sid].PID = 0 => sessions'[sid].Exited = sessions[sid].Exited
       /\ \A p \in Pids :
             MarkExited(p) =>
                 \A sid \in DOMAIN sessions :
                     (p = 0 \/ sessions[sid].PID = 0) => sessions'[sid] = sessions[sid]]_vars

\* C10 witness: mark_exited(p) has flagged a session of pid p while a session
\* that has data and pid 0 stays unflagged.
C10_Witness ==
    \E a, b \in DOMAIN sessions :
        /\ sessions[a].PID # 0 /\ sessions[a].Exited
        /\ sessions[b].PID = 0 /\ ~sessions[b].Exited /\ sessions[b].Metrics # <<>>

\* C11: a mark_exited(p) with p # 0 leaves every session of pid p exited,
\* leaves exited as it was on every session of another pid, and leaves
\* total_cost of every session as it was.
C11_MarkExitedFrame ==
    [][\A p \in Pids \ {0} :
          MarkExited(p) =>
              /\ DOMAIN sessions' = DOMAIN sessions
              /\ \A sid \in DOMAIN sessions :
                     /\ sessions[sid].PID = p => sessions'[sid].Exited
                     /\ sessions[sid].PID # p => sessions'[sid].Exited = sessions[sid].Exited
                     /\ sessions'[sid].TotalCost = sessions[sid].TotalCost]_vars

\* C11 witness: a session of a non-zero pid has been flagged and keeps its
\* cost, next to an unflagged session of another non-zero pid.
C11_Witness ==
    \E a, b \in DOMAIN sessions :
        /\ sessions[a].PID # 0 /\ sessions[a].Exited /\ sessions[a].TotalCost > 0
        /\ sessions[b].PID # 0 /\ sessions[b].PID # sessions[a].PID /\ ~sessions[b].Exited

\* ------------------------------------------------------------------ the dedup window

MaxDedupWrites == 1
MaxDedupNow == 6
MaxDedupEvals == 3

\* What the calculator reports: nothing going on, or a cost at the surge threshold.
Quiet == [HourlyRate |-> 0, TokenVelocity |-> 0]
Surge == [HourlyRate |-> 100, TokenVelocity |-> 0]

\* An api_request over 80% of its model's context limit.
OverLimitAttrs ==
    [k \in {"model", "input_tokens"} |-> IF k = "model" THEN "claude-opus-4-6" ELSE "160001"]

DedupCall ==
    /\ Len(issued) < MaxDedupWrites
    /\ AddEventLock("w1", "s1", ApiRequest, OverLimitAttrs, 1)

DedupNext ==
    \/ DedupCall
    \/ AddEventBody("w1")
    \/ AddEventReturn("w1")
    \/ Sleep(1, MaxDedupNow)
    \/ /\ Len(evalLog) < MaxDedupEvals
       /\ \E br \in {Quiet, Surge}, order \in SessionOrders : EvaluateAt(br, order)

SpecDedup == Init /\ [][DedupNext]_vars

\* The keys of the alerts of a list.
KeysOf(list) == {alertKey(list[i]) : i \in 1..Len(list)}

\* No two entries of the list share a key and lie less than dedupTTL apart.
WindowApart(list) ==
    \A i, j \in 1..Len(list) :
        (i < j /\ alertKey(list[i]) = alertKey(list[j]))
            => list[j].FiredAt - list[i].FiredAt >= dedupTTL

\* C12: an alert whose key fired less than one dedup window earlier is
\* neither appended to the active list nor sent to the notifier: in both,
\* two alerts of one key lie at least a window apart.
C12_DedupWithinWindow == WindowApart(alerts) /\ WindowApart(notified)

\* C12 witness: a key fired, triggered again 30 s later without being
\* appended or notified, and fired again 120 s after the first fire.
C12_Witness ==
    /\ notifier
    /\ \E a, b, c \in 1..Len(evalLog) : \E k \in KeysOf(evalLog[a].newAlerts) :
          /\ evalLog[b].at = evalLog[a].at + 1
          /\ k \in KeysOf(evalLog[b].returned) /\ k \notin KeysOf(evalLog[b].newAlerts)
          /\ evalLog[c].at = evalLog[a].at + 4
          /\ k \in KeysOf(evalLog[c].newAlerts)
          /\ Cardinality({i \in 1..Len(notified) : alertKey(notified[i]) = k}) = 2
          /\ Cardinality({i \in 1..Len(alerts) : alertKey(alerts[i]) = k}) = 2

RECURSIVE NotSuppressed(_, _, _)
\* The alerts of triggered[i..] that no alert of the same key precedes by less
\* than the window, the alerts in `before` and the ones kept so far counted.
NotSuppressed(triggered, i, before) ==
    IF i > Len(triggered) THEN <<>>
    ELSE IF \E n \in 1..Len(before) :
               /\ alertKey(before[n]) = alertKey(triggered[i])
               /\ triggered[i].FiredAt - before[n].FiredAt < dedupTTL
         THEN NotSuppressed(triggered, i + 1, before)
         ELSE <<triggered[i]>> \o NotSuppressed(triggered, i + 1, Append(before, triggered[i]))

\* C13: an evaluation appends each alert its rules returned and the dedup
\* did not suppress once to the active list, hands exactly these to the
\* notifier when one is configured, and calls no notifier otherwise.
C13_AppendedAndNotifiedOnce ==
    [][Len(evalLog') = Len(evalLog) + 1 =>
          LET fresh == NotSuppressed(evalLog'[Len(evalLog')].returned, 1, alerts)
          IN  /\ alerts' = alerts \o fresh
              /\ notified' = IF notifier THEN notified \o fresh ELSE notified]_vars

\* C13 witness: with a notifier, one evaluation had a suppressed alert and
\* one that was appended and notified.
C13_Witness ==
    /\ notifier
    /\ \E n \in 1..Len(evalLog) :
          /\ evalLog[n].newAlerts # <<>>
          /\ Len(evalLog[n].returned) > Len(evalLog[n].newAlerts)
    /\ notified = alerts

\* C18 (as claimed): after an evaluation the dedup index holds no entry whose
\* fire time is more than twice the window before the evaluation.
C18_NoStaleEntries ==
    [][Len(evalLog') = Len(evalLog) + 1 =>
          \A k \in DOMAIN lastFired' :
              evalLog'[Len(evalLog')].at - lastFired'[k] <= 2 * dedupTTL]_vars

\* C18 (amended): after an evaluation that recorded a fire the dedup index
\* holds no entry whose fire time is more than twice the window before it.
C18_PrunedOnRecord ==
    [][(Len(evalLog') = Len(evalLog) + 1 /\ evalLog'[Len(evalLog')].newAlerts # <<>>) =>
          \A k \in DOMAIN lastFired' :
              evalLog'[Len(evalLog')].at - lastFired'[k] <= 2 * dedupTTL]_vars

\* C18 witness: a key that fired is gone from the index, removed when a
\* later alert was recorded.
C18_Witness ==
    \E n \in 1..Len(evalLog) : \E k \in KeysOf(evalLog[n].newAlerts) :
        /\ k \notin DOMAIN lastFired
        /\ evalLog[Len(evalLog)].newAlerts # <<>>
        /\ evalLog[Len(evalLog)].at - evalLog[n].at > 2 * dedupTTL

\* ------------------------------------------------------------------ the evaluator's lifecycle

MaxLifeEvals == 3
MaxLifeNow == 3

\* main: one Start, and after it the calls of Stop.
LifeNext ==
    \/ cancel = "nil" /\ Start
    \/ \E c \in StopCallers : cancel # "nil" /\ StopCancel(c)
    \/ \E c \in StopCallers : StopWait(c)
    \/ /\ Len(evalLog) < MaxLifeEvals
       /\ \E br \in {Quiet, Surge}, order \in SessionOrders : EvaluatorTick(br, order)
    \/ EvaluatorExit
    \/ Sleep(1, MaxLifeNow)

SpecLife == Init /\ [][LifeNext]_vars

\* Some call of Stop has returned.
StopReturned(st) == \E c \in StopCallers : st[c] = "returned"

\* C19: Stop returns only once the evaluator is cancelled and has exited,
\* and once a Stop has returned no evaluation runs, nothing is appended to
\* the active list and nothing is notified.
C19_NothingAfterStop ==
    [][/\ StopReturned(stop') => (ctxDone' /\ evaluator' = "exited")
       /\ StopReturned(stop) =>
              (evalLog' = evalLog /\ alerts' = alerts /\ notified' = notified)]_vars

\* C19 witness: Stop has returned after an evaluation that ran when the
\* context was already cancelled and appended and notified an alert.
C19_Witness ==
    /\ StopReturned(stop)
    /\ notified # <<>>
    /\ \E n \in 1..Len(evalLog) : evalLog[n].cancelled /\ evalLog[n].newAlerts # <<>>

\* ------------------------------------------------------------------ restarting the evaluator

MaxStarts == 2
MaxRestartEvals == 2

\* A caller that starts and stops the engine in any order.
RestartNext ==
    \/ Len(earlier) < MaxStarts - 1 /\ Start
    \/ \E c \in StopCallers : StopCancel(c)
    \/ \E c \in StopCallers : StopWait(c)
    \/ /\ Len(evalLog) < MaxRestartEvals
       /\ \E br \in {Quiet, Surge}, order \in SessionOrders : EvaluatorTick(br, order)
    \/ /\ Len(evalLog) < MaxRestartEvals
       /\ \E i \in DOMAIN earlier, br \in {Quiet, Surge}, order \in SessionOrders :
              EarlierTick(i, br, order)
    \/ EvaluatorExit
    \/ \E i \in DOMAIN earlier : EarlierExit(i)
    \/ Cancel

\* A goroutine whose context is done takes that case of its select in the
\* end, and a Stop whose receive can return does.
SpecRestart ==
    /\ Init /\ [][RestartNext]_vars
    /\ WF_vars(EvaluatorExit)
    /\ \A i \in 1..(MaxStarts - 1) : WF_vars(EarlierExit(i))
    /\ \A c \in StopCallers : WF_vars(StopWait(c))

\* An evaluator goroutine is in its loop.
EvaluatorRunning(ev, earl) ==
    ev = "select" \/ \E i \in DOMAIN earl : earl[i].state = "select"

\* C33 (as claimed): no sequence of Start and Stop panics, every Stop that
\* was called returns, and at the return of a Stop no evaluator goroutine
\* of any Start before it is in its loop.
C33_StartStopAnySequence ==
    /\ [](panics = <<>>)
    /\ \A c \in StopCallers : (stop[c] # "idle") ~> (stop[c] = "returned")
    /\ [][\A c \in StopCallers :
             (stop[c] # "returned" /\ stop'[c] = "returned") =>
                 ~EvaluatorRunning(evaluator', earlier')]_vars

\* ------------------------------------------------------------------ runaway tokens

MaxRunEvals == 4
MaxRunNow == 5

\* What the calculator reports: a token velocity just under, or at, the threshold.
Slow == [HourlyRate |-> 0, TokenVelocity |-> 199999]
Fast == [HourlyRate |-> 0, TokenVelocity |-> 200000]

RunNext ==
    \/ Sleep(1, MaxRunNow)
    \/ /\ Len(evalLog) < MaxRunEvals
       /\ \E br \in {Slow, Fast}, order \in SessionOrders : EvaluateAt(br, order)

SpecRun == Init /\ [][RunNext]_vars

\* The n-th evaluation returned a RunawayTokens alert.
RunawayFired(n) ==
    \E i \in 1..Len(evalLog[n].returned) : evalLog[n].returned[i].Rule = RuleRunawayTokens

\* C14: RunawayTokens fires in an evaluation only if the evaluations of a
\* span of at least sustained_minutes ending with it all saw the velocity
\* at or above the threshold; one evaluation below it starts the span anew.
C14_SustainedOnly ==
    \A n \in 1..Len(evalLog) :
        RunawayFired(n) =>
            \E m \in 1..n :
                /\ evalLog[n].at - evalLog[m].at >= RunawayTokenSustainedMinutes * Minute
                /\ \A k \in m..n : evalLog[k].br.TokenVelocity >= RunawayTokenVelocity

\* C14 witness: the velocity was over the threshold, dropped, and the rule
\* fired only after a full period over the threshold following the drop.
C14_Witness ==
    \E a, b, c, d \in 1..Len(evalLog) :
        /\ a < b /\ b < c /\ c < d
        /\ evalLog[a].br = Fast /\ evalLog[b].br = Slow /\ evalLog[c].br = Fast
        /\ evalLog[c].at - evalLog[a].at >= RunawayTokenSustainedMinutes * Minute
        /\ ~RunawayFired(c)
        /\ RunawayFired(d)

\* ------------------------------------------------------------------ the loop detector

MaxLoopWrites == 3
MaxLoopNow == 11
MaxLoopEvals == 2

\* The attributes of a tool_result event.
ToolAttrs(tool, success, params) ==
    [k \in {"tool_name", "success", "tool_parameters"} |->
        IF k = "tool_name" THEN tool ELSE IF k = "success" THEN success ELSE params]

\* tool_result events: failed Bash commands, one that passed, a failed Read,
\* and a Bash result that carries no success attribute.
ToolSamples ==
    { ToolAttrs("Bash", "false", "{\"bash_command\":\"npm test\"}"),
      ToolAttrs("Bash", "false", "{\"bash_command\":\"npx jest\"}"),
      ToolAttrs("Bash", "true", "{\"bash_command\":\"npm test\"}"),
      ToolAttrs("Read", "false", "{\"bash_command\":\"npm test\"}"),
      [k \in {"tool_name", "tool_parameters"} |->
          IF k = "tool_name" THEN "Bash" ELSE "{\"bash_command\":\"npm test\"}"] }

LoopCall ==
    /\ Len(issued) < MaxLoopWrites
    /\ \E attrs \in ToolSamples : AddEventLock("w1", "s1", ToolResult, attrs, now)

LoopNext ==
    \/ LoopCall
    \/ AddEventBody("w1")
    \/ AddEventReturn("w1")
    \/ Sleep(5 * Minute, MaxLoopNow)
    \/ /\ Len(evalLog) < MaxLoopEvals
       /\ \E order \in SessionOrders : EvaluateAt(Quiet, order)

SpecLoop == Init /\ [][LoopNext]_vars

\* The events of a session that are failed Bash tool results of a command hash.
FailedBashOf(sid, hash) ==
    {i \in 1..Len(sessions[sid].Events) :
        LET e == sessions[sid].Events[i]
        IN  /\ e.Name = ToolResult
            /\ Attr(e, "tool_name") = "Bash"
            /\ Attr(e, "success") = "false"
            /\ Normalize(extractBashCommand(Attr(e, "tool_parameters"))) = hash}

\* C15 (as claimed): a failure list of a session holds timestamps of that
\* session's tool_result events with tool_name = "Bash" and success =
\* "false" only, each event counted once.
C15_OnlyFailedBash ==
    \A sid \in DOMAIN failures : \A hash \in DOMAIN failures[sid] :
        Len(failures[sid][hash]) <= Cardinality(FailedBashOf(sid, hash))

\* ------------------------------------------------------------------ context pressure

MaxPressureWrites == 2
MaxPressureEvals == 2

\* The attributes of an api_request event.
RequestAttrs(model, inputTokens) ==
    [k \in {"model", "input_tokens"} |-> IF k = "model" THEN model ELSE inputTokens]

\* api_request events: at and over 80% of the limit, without a readable
\* token count, and of two models the limit map does not have.
RequestSamples ==
    { RequestAttrs("claude-opus-4-6", "160000"),
      OverLimitAttrs,
      RequestAttrs("claude-opus-4-6", "lots"),
      [k \in {"model"} |-> "claude-opus-4-6"],
      RequestAttrs("mystery-model", "160001"),
      RequestAttrs("other-model", "160001") }

PressureCall ==
    /\ Len(issued) < MaxPressureWrites
    /\ \E sid \in {"s1", "s2"}, attrs \in RequestSamples :
          AddEventLock("w1", sid, ApiRequest, attrs, 1)

PressureNext ==
    \/ PressureCall
    \/ AddEventBody("w1")
    \/ AddEventReturn("w1")
    \/ /\ Len(evalLog) < MaxPressureEvals
       /\ \E order \in SessionOrders : EvaluateAt(Quiet, order)

SpecPressure == Init /\ [][PressureNext]_vars

\* The api_request events of a session whose model has a limit and whose
\* input_tokens is a number greater than limit * pressure_percent / 100.
OverPressure(sid) ==
    {i \in 1..Len(sessions[sid].Events) :
        LET e == sessions[sid].Events[i]
            tokens == ParseInt(Attr(e, "input_tokens"))
        IN  /\ e.Name = ApiRequest
            /\ Attr(e, "model") \in DOMAIN ModelLimits
            /\ ~tokens.err
            /\ tokens.n > (ModelLimits[Attr(e, "model")] * ContextPressurePercent) \div 100}

\* The models of the stored api_request events that have no limit.
UnknownModels ==
    UNION {{Attr(sessions[sid].Events[i], "model") : i \in 1..Len(sessions[sid].Events)} :
              sid \in DOMAIN sessions} \ (DOMAIN ModelLimits \cup {""})

\* C16: an evaluation returns, for each session, one ContextPressure alert
\* per api_request event of a known model with input_tokens > limit *
\* pressure_percent / 100 and none for any other event; after it, the log
\* has one warning for each unknown model seen so far and no other line.
C16_PressureExactly ==
    [][Len(evalLog') = Len(evalLog) + 1 =>
          LET returned == evalLog'[Len(evalLog')].returned
          IN  /\ \A sid \in DOMAIN sessions :
                     Cardinality({i \in 1..Len(returned) :
                                     /\ returned[i].Rule = RuleContextPressure
                                     /\ returned[i].SessionID = sid})
                        = Cardinality(OverPressure(sid))
              /\ \A i \in 1..Len(returned) :
                     returned[i].Rule = RuleContextPressure => returned[i].SessionID \in DOMAIN sessions
              /\ \A model \in UnknownModels :
                     Cardinality({i \in 1..Len(warnLog') : warnLog'[i] = model}) = 1
              /\ \A i \in 1..Len(warnLog') : warnLog'[i] \in UnknownModels]_vars

\* C16 witness: an evaluation alerted and warned about an unknown model,
\* and the next one alerted again without repeating the warning.
C16_Witness ==
    /\ Len(evalLog) = 2
    /\ evalLog[1].returned # <<>> /\ evalLog[1].lines # <<>>
    /\ evalLog[2].returned # <<>> /\ evalLog[2].lines = <<>>
    /\ Len(warnLog) = 1

\* ------------------------------------------------------------------ a stored event, evaluated again

MaxRepeatWrites == 2
MaxRepeatEvals == 3
MaxRepeatNow == 4

\* api_request events are stored, evaluations run and the clock moves on.
RepeatNext ==
    \/ /\ Len(issued) < MaxRepeatWrites
       /\ \E sid \in {"s1", "s2"}, attrs \in {OverLimitAttrs, RequestAttrs("claude-opus-4-6", "160000")} :
              AddEventLock("w1", sid, ApiRequest, attrs, 1)
    \/ AddEventBody("w1")
    \/ AddEventReturn("w1")
    \/ /\ Len(evalLog) < MaxRepeatEvals
       /\ \E order \in SessionOrders : EvaluateAt(Quiet, order)
    \/ Sleep(1, MaxRepeatNow)

SpecRepeat == Init /\ [][RepeatNext]_vars

\* The ContextPressure alerts of a session in the active list.
ActivePressureAlerts(sid) ==
    {i \in 1..Len(alerts) : alerts[i].Rule = RuleContextPressure /\ alerts[i].SessionID = sid}

\* C34 (as claimed): a session with one over-limit api_request event has at
\* most one ContextPressure alert in the active list, however many
\* evaluations ran.
C34_OneAlertPerEvent ==
    \A sid \in DOMAIN sessions :
        Cardinality(OverPressure(sid)) = 1 => Cardinality(ActivePressureAlerts(sid)) <= 1

\* ------------------------------------------------------------------ error storms

MaxStormWrites == 11
MaxStormNow == 5
MaxStormEvals == 1

\* The attributes of an api_error event.
ErrorAttrs == [k \in {"error"} |-> "overloaded"]

StormCall ==
    /\ Len(issued) < MaxStormWrites
    /\ AddEventLock("w1", "s1", ApiError, ErrorAttrs, now)

StormNext ==
    \/ StormCall
    \/ AddEventBody("w1")
    \/ AddEventReturn("w1")
    \/ Sleep(Minute, MaxStormNow)
    \/ /\ Len(evalLog) < MaxStormEvals
       /\ \E order \in SessionOrders : EvaluateAt(Quiet, order)

SpecStorm == Init /\ [][StormNext]_vars

\* The api_error events of a session that are at most a minute older than t.
RecentErrors(sid, t) ==
    {i \in 1..Len(sessions[sid].Events) :
        /\ sessions[sid].Events[i].Name = ApiError
        /\ sessions[sid].Events[i].Timestamp >= t - Minute}

\* C17: an evaluation returns an ErrorStorm alert for a session exactly when
\* more than error_storm_threshold of its api_error events lie in the
\* minute before the evaluation, and then exactly one.
C17_StormExactly ==
    [][Len(evalLog') = Len(evalLog) + 1 =>
          LET returned == evalLog'[Len(evalLog')].returned
              t == evalLog'[Len(evalLog')].at
          IN  \A sid \in DOMAIN sessions :
                  Cardinality({i \in 1..Len(returned) :
                                  /\ returned[i].Rule = RuleErrorStorm
                                  /\ returned[i].SessionID = sid})
                     = IF Cardinality(RecentErrors(sid, t)) > ErrorStormCount THEN 1 ELSE 0]_vars

\* C17 witness: an evaluation with exactly eleven api_error events in its
\* last minute returned the alert.
C17_Witness ==
    \E n \in 1..Len(evalLog) :
        /\ \E i \in 1..Len(evalLog[n].returned) : evalLog[n].returned[i].Rule = RuleErrorStorm
        /\ Cardinality(RecentErrors("s1", evalLog[n].at)) = ErrorStormCount + 1

\* ------------------------------------------------------------------ session id extraction

MaxExports == 2

\* Where a request can carry session.id: no resource, a resource without
\* the key, with it, and with it but empty; the same for the record's own
\* attributes, next to another attribute.
ResourceSamples ==
    {NoResource, Resource(<<>>),
     Resource(<<KV("session.id", Str("s1"))>>),
     Resource(<<KV("session.id", Str(""))>>)}
OwnAttrSamples ==
    {<<>>, <<KV("session.id", Str("s1"))>>,
     <<KV("type", Str("input")), KV("session.id", Str("s2"))>>}

MetricsSamples ==
    {MetricsRequest(r, CostUsage, a, 2, 1) : r \in ResourceSamples, a \in OwnAttrSamples}

LogsSamples ==
    {HttpRequest("POST", "application/x-protobuf",
                 ProtoBody(LogsRequest(r, <<LogRecord(1, UserPrompt, NoBody, a)>>))) :
        r \in ResourceSamples, a \in OwnAttrSamples}

ExportNext ==
    \/ \E req \in MetricsSamples : Len(respLog) < MaxExports /\ Export("w1", req)
    \/ \E req \in LogsSamples : Len(respLog) < MaxExports /\ handleLogs("w1", req)
    \/ StoreCall("w1")
    \/ AddMetricBody("w1")
    \/ AddEventBody("w1")
    \/ AddEventReturn("w1")
    \/ Respond("w1")

SpecExport == Init /\ [][ExportNext]_vars

\* The resource and the own attributes of the one record of a request.
ResourceOf(req) == IF req.kind = "http" THEN req.body.req.resource ELSE req.resource
OwnAttrsOf(req) == IF req.kind = "http" THEN req.body.req.records[1].attrs ELSE req.attrs

\* The value under session.id in a list of attributes that has the key.
HasSessionID(kvs) == \E i \in 1..Len(kvs) : kvs[i].key = "session.id"
SessionIDIn(kvs) == kvs[CHOOSE i \in 1..Len(kvs) : kvs[i].key = "session.id"].value.v

\* The session a record belongs in: the resource's session.id if the
\* resource has the key, else the record's own, else none, which is "unknown".
SessionFor(req) ==
    LET id == IF HasSessionID(ResourceOf(req).attrs) THEN SessionIDIn(ResourceOf(req).attrs)
              ELSE IF HasSessionID(OwnAttrsOf(req)) THEN SessionIDIn(OwnAttrsOf(req))
              ELSE ""
    IN  IF id = "" THEN "unknown" ELSE id

\* C25: every data point and log record is stored once, in the session its
\* resource names, else the one its own attributes name, else "unknown";
\* and the session the store then holds has it.
C25_SessionFromResourceThenOwn ==
    \A n \in 1..Len(respLog) :
        /\ Len(respLog[n].stored) = 1
        /\ respLog[n].stored[1].sid = SessionFor(respLog[n].req)
        /\ SessionFor(respLog[n].req) \in DOMAIN sessions

\* C25 witness: the same metric arrived with session.id = s1 once in the
\* resource only and once in the data point only, and the session s1 holds both.
C25_Witness ==
    /\ Len(respLog) = 2
    /\ respLog[1].req = MetricsRequest(Resource(<<KV("session.id", Str("s1"))>>), CostUsage, <<>>, 2, 1)
    /\ respLog[2].req = MetricsRequest(NoResource, CostUsage, <<KV("session.id", Str("s1"))>>, 2, 1)
    /\ DOMAIN sessions = {"s1"}
    /\ Len(sessions["s1"].Metrics) = 2

\* ------------------------------------------------------------------ telemetry classification

\* The environments of the processes classified: each variable absent or
\* set to one of a few values; an unreadable environment is nil.
EnvKeys == {EnableTelemetry, OtlpEndpoint, MetricsExporter, LogsExporter}

EndpointSamples ==
    {"", "http://localhost:4317", "localhost:4318", "http://localhost",
     "https://collector.example.com", "http://[::1"}

FullEnvSamples ==
    {[k \in EnvKeys |-> CASE k = EnableTelemetry -> telemetry
                          [] k = OtlpEndpoint -> endpoint
                          [] k = MetricsExporter -> metricsExporter
                          [] k = LogsExporter -> logsExporter] :
        telemetry \in {"", "0", "1"}, endpoint \in EndpointSamples,
        metricsExporter \in {"otlp", "console"}, logsExporter \in {"otlp"}}

EnvSamples == {[k \in ks |-> env[k]] : ks \in SUBSET EnvKeys, env \in FullEnvSamples}

ClassifyNext ==
    \E readable \in BOOLEAN, configuredPort \in {4317, 4318, 80, 443}, hasReceivedData \in BOOLEAN :
        \E env \in (IF readable THEN EnvSamples ELSE {EmptyMap}) :
            GetTelemetryStatus([PID |-> 1234, EnvReadable |-> readable, EnvVars |-> env],
                               configuredPort, hasReceivedData)

SpecClassify == Init /\ [][ClassifyNext]_vars

\* The port an endpoint names: the one written in it, else the default of
\* its scheme (a bare host:port is read as http), else none (-1).
EndpointPort(endpoint) ==
    CASE endpoint \in {"http://localhost:4317"} -> 4317
      [] endpoint \in {"localhost:4318"} -> 4318
      [] endpoint \in {"http://localhost:9090"} -> 9090
      [] endpoint \in {"http://localhost"} -> 80
      [] endpoint \in {"https://collector.example.com"} -> 443
      [] OTHER -> -1

IsSet(env, k) == k \in DOMAIN env /\ env[k] # ""

IsOtlp(env, k) == k \in DOMAIN env /\ env[k] = "otlp"

\* The status the decision order gives, step by step.
Decided(proc, configuredPort, hasReceivedData) ==
    CASE hasReceivedData -> TelemetryConnected
      [] ~hasReceivedData /\ ~proc.EnvReadable -> TelemetryUnknown
      [] OTHER ->
         LET env == proc.EnvVars
         IN  IF ~IsSet(env, EnableTelemetry) \/ env[EnableTelemetry] = "0" THEN TelemetryOff
             ELSE IF ~IsSet(env, OtlpEndpoint)
                  THEN IF ~IsOtlp(env, MetricsExporter) /\ ~IsOtlp(env, LogsExporter)
                       THEN TelemetryConsoleOnly
                       ELSE IF configuredPort = 4317 THEN TelemetryWaiting ELSE TelemetryWrongPort
                  ELSE IF EndpointPort(env[OtlpEndpoint]) = configuredPort
                       THEN TelemetryWaiting ELSE TelemetryWrongPort

\* C28: classify decides in a fixed order: received data gives Connected
\* whatever the environment says; else an unreadable environment gives
\* Unknown; else CLAUDE_CODE_ENABLE_TELEMETRY absent, empty or "0" gives
\* Off; else, with no endpoint, Console-only when neither exporter is otlp
\* and otherwise Waiting on port 4317 and WrongPort on any other; else
\* Waiting exactly when the endpoint's port is the configured one.
C28_DecisionOrder ==
    classified # Nil =>
        classified.Status =
            Decided(classified.proc, classified.configuredPort, classified.hasReceivedData)

\* C28 witness: the last step decided: telemetry on, a bare host:port
\* endpoint on the configured port, no data yet, Waiting.
C28_Witness ==
    /\ classified # Nil
    /\ ~classified.hasReceivedData
    /\ classified.proc.EnvReadable
    /\ Lookup(classified.proc.EnvVars, OtlpEndpoint).v = "localhost:4318"
    /\ classified.configuredPort = 4318
    /\ classified.Status = TelemetryWaiting

\* ------------------------------------------------------------------ partial configuration

\* The keys a document may set, each to one in-range value; one of them
\* also to a value out of range; and a section the program does not know.
KeySamples ==
    {<<"receiver", "grpc_port", 5317>>, <<"scanner", "interval_seconds", 10>>,
     <<"alerts", "cost_surge_threshold_per_hour", 500>>, <<"alerts", "error_storm_count", 20>>,
     <<"alerts", "runaway_token_sustained_minutes", 3>>,
     <<"alerts", "context_pressure_percent", 90>>, <<"alerts", "context_pressure_percent", 101>>,
     <<"display", "event_buffer_size", 2000>>, <<"models", "claude-opus-4-6", 100000>>,
     <<"telemetry", "enabled", 1>>}

\* A choice of settings says at most one value per key.
OneValuePerKey(settings) ==
    \A a, b \in settings : a[1] = b[1] /\ a[2] = b[2] => a = b

\* The raw map of the document that says the settings, section by section.
RawOf(settings) ==
    [sec \in {x[1] : x \in settings} |->
        [k \in {x[2] : x \in {y \in settings : y[1] = sec}} |->
            (CHOOSE x \in settings : x[1] = sec /\ x[2] = k)[3]]]

DocumentSamples ==
    {Document(FALSE, RawOf(settings)) : settings \in {x \in SUBSET KeySamples : OneValuePerKey(x)}}
    \cup {Document(TRUE, EmptyMap)}

ConfigNext == \E data \in DocumentSamples : LoadFromString(data)

SpecConfig == Init /\ [][ConfigNext]_vars

\* The range the documentation gives a key: ports 1-65535, a percentage
\* 1-100, everything else positive.
InRange(key, value) ==
    CASE key \in {"grpc_port", "http_port"} -> value >= 1 /\ value <= 65535
      [] key = "context_pressure_percent" -> value >= 1 /\ value <= 100
      [] OTHER -> value >= 1

AllInRange(raw) ==
    \A sec \in DOMAIN raw \cap knownTopLevel : \A k \in DOMAIN raw[sec] : InRange(k, raw[sec][k])

\* C29 (as claimed): a document that sets only some keys, all in range,
\* loads without error; the keys it sets have the given values and every
\* other key has its default.
C29_PartialKeepsDefaults ==
    loaded # Nil /\ AllInRange(loaded.data.raw) =>
        /\ ~loaded.result.err
        /\ \A sec \in knownTopLevel : \A k \in DOMAIN DefaultConfig[sec] :
              loaded.result.Config[sec][k] =
                  IF sec \in DOMAIN loaded.data.raw /\ k \in DOMAIN loaded.data.raw[sec]
                  THEN loaded.data.raw[sec][k]
                  ELSE DefaultConfig[sec][k]

\* C38 (as claimed): a configuration the loader returns without an error,
\* the defaults it returns for an empty text among them, passes every range
\* rule of validate.
C38_LoadedIsValid ==
    loaded # Nil /\ ~loaded.result.err => validate(loaded.result.Config) = {}

\* ------------------------------------------------------------------ the HTTP endpoint

MaxHttpRequests == 2

\* Log exports: string and int attributes under a resource session; a body
\* string for the name with a bool and the session among the record's own
\* attributes; an array attribute; an attribute with no value set.
LogPayloads ==
    {LogsRequest(Resource(<<KV("session.id", Str("s1"))>>),
                 <<LogRecord(1, ApiRequest, NoBody,
                             <<KV("model", Str("m1")), KV("input_tokens", IntVal("42"))>>)>>),
     LogsRequest(NoResource,
                 <<LogRecord(2, "", Body(Str(UserPrompt)),
                             <<KV("session.id", Str("s2")), KV("ok", BoolVal("true"))>>)>>),
     LogsRequest(Resource(<<KV("session.id", Str("s1"))>>),
                 <<LogRecord(1, ToolResult, NoBody, <<KV("tags", ArrayVal("a"))>>)>>),
     LogsRequest(Resource(<<KV("session.id", Str("s1"))>>),
                 <<LogRecord(1, ToolResult, NoBody, <<KV("note", NoValue)>>)>>)}

\* The OTLP/JSON form of an AnyValue: the field named after the kind, the
\* int64 as a string of digits, an empty object when no value is set.
JsonValueOf(v) ==
    CASE v.kind = "string" -> JsonValue("stringValue", v.v)
      [] v.kind = "int" -> JsonValue("intValue", v.v)
      [] v.kind = "bool" -> JsonValue("boolValue", v.v)
      [] v.kind = "array" -> JsonValue("arrayValue", v.v)
      [] v.kind = "none" -> JsonValue("", "")

JsonAttrsOf(kvs) == [i \in 1..Len(kvs) |-> KV(kvs[i].key, JsonValueOf(kvs[i].value))]

\* The OTLP/JSON document that says what the protobuf request req says.
JsonOf(req) ==
    LogsRequest(
        [present |-> req.resource.present, attrs |-> JsonAttrsOf(req.resource.attrs)],
        [i \in 1..Len(req.records) |->
            LET lr == req.records[i]
            IN  LogRecord(lr.TimeUnixNano, lr.EventName,
                          [present |-> lr.Body.present, value |-> JsonValueOf(lr.Body.value)],
                          JsonAttrsOf(lr.attrs))])

HttpBodies ==
    {ProtoBody(req) : req \in LogPayloads} \cup {JsonBody(JsonOf(req)) : req \in LogPayloads}
    \cup {EmptyBody, GarbageBody}

HttpSamples ==
    {HttpRequest(method, contentType, body) :
        method \in {"POST", "GET"},
        contentType \in {"application/json", "application/x-protobuf"},
        body \in HttpBodies}

HttpNext ==
    \/ \E req \in HttpSamples : Len(respLog) < MaxHttpRequests /\ handleLogs("w1", req)
    \/ StoreCall("w1")
    \/ AddEventBody("w1")
    \/ AddEventReturn("w1")
    \/ Respond("w1")

SpecHttp == Init /\ [][HttpNext]_vars

\* The body is a document of the kind the content type announces.
WellFormed(req) ==
    IF req.contentType = "application/json" THEN req.body.enc = "json"
    ELSE req.body.enc \in {"proto", "empty"}

\* C26: on /v1/logs a request that is not a POST is answered 405 and a POST
\* whose body does not decode 400, both without a write to the store; a
\* POST whose body decodes is answered 200 with body {}, whatever was
\* answered before.
C26_StatusByMethodAndBody ==
    [][\A n \in (Len(respLog) + 1)..Len(respLog') :
          LET r == respLog'[n]
          IN  /\ r.req.method # "POST" => r.status = 405
              /\ r.req.method = "POST" /\ ~WellFormed(r.req) => r.status = 400
              /\ r.req.method = "POST" /\ WellFormed(r.req) => r.status = 200 /\ r.body = "{}"
              /\ r.status \in {400, 405} =>
                    /\ r.stored = <<>>
                    /\ sessions' = sessions /\ heap' = heap /\ issued' = issued]_vars

\* C26 witness: a malformed POST was answered 400 and the POST after it
\* was answered 200 and stored its event.
C26_Witness ==
    /\ Len(respLog) = 2
    /\ respLog[1].req.method = "POST" /\ respLog[1].req.body = GarbageBody
    /\ respLog[1].status = 400
    /\ respLog[2].status = 200
    /\ Len(respLog[2].stored) = 1
    /\ DOMAIN sessions # {}

\* C27 (as claimed): a log export posted as application/json gets the same
\* answer and stores the same events (session, name, attributes, timestamp)
\* as the same export posted as protobuf.
C27_JsonSameAsProtobuf ==
    \A i, j \in 1..Len(respLog) : \A req \in LogPayloads :
        /\ respLog[i].req = HttpRequest("POST", "application/x-protobuf", ProtoBody(req))
        /\ respLog[j].req = HttpRequest("POST", "application/json", JsonBody(JsonOf(req)))
        => /\ respLog[i].status = respLog[j].status
           /\ respLog[i].stored = respLog[j].stored

\* ------------------------------------------------------------------ kill switch

MaxSignals == 4

\* The keys pressed: those the bindings above name, and one they do not.
Keys == {"q", "tab", "enter", "esc", "f", "ctrl+k", "y", "n", "a", "e", "x"}

TuiNext ==
    \/ \E k \in Keys, pid \in KillPids \cup {0} :
          Len(sigLog) < MaxSignals /\ KeyMsg(k, pid)
    \/ feed.events = <<>> /\ EventArrives("s1")

SpecTui == Init /\ [][TuiNext]_vars

\* The signals this step sent.
SentNow == {sigLog'[i] : i \in (Len(sigLog) + 1)..Len(sigLog')}

\* C24: a process is paused only together with opening the confirmation for
\* it; it is terminated only by a confirming key in the open confirmation,
\* which that key always does; a denying key or Esc in the open confirmation
\* resumes it; a closed confirmation leaves no process paused.
C24_PauseConfirmThenKillOrResume ==
    [][LET target == tuiModel.killTargetPID
       IN  /\ \A sg \in SentNow :
                 /\ sg[1] = "SIGSTOP" =>
                        /\ ~tuiModel.killConfirm /\ tuiModel'.killConfirm
                        /\ tuiModel'.killTargetPID = sg[2]
                 /\ sg[1] = "SIGKILL" =>
                        /\ tuiModel.killConfirm /\ lastKey' \in Confirm
                        /\ sg[2] = target /\ procState[target] = "paused"
           /\ tuiModel.killConfirm /\ lastKey' \in Confirm =>
                 ~tuiModel'.killConfirm /\ procState'[target] = "terminated"
           /\ tuiModel.killConfirm /\ lastKey' \in Deny \cup Escape =>
                 ~tuiModel'.killConfirm /\ procState'[target] = "running"
           /\ \A pid \in KillPids :
                 procState'[pid] = "paused" =>
                     tuiModel'.killConfirm /\ tuiModel'.killTargetPID = pid]_vars

\* C24 witness: one process was paused and resumed on N, the other paused
\* and terminated on Y, and the confirmation is closed again.
C24_Witness ==
    /\ sigLog = << <<"SIGSTOP", 4821>>, <<"SIGCONT", 4821>>,
                   <<"SIGSTOP", 7001>>, <<"SIGKILL", 7001>> >>
    /\ procState = [pid \in KillPids |-> IF pid = 4821 THEN "running" ELSE "terminated"]
    /\ ~tuiModel.killConfirm

\* ------------------------------------------------------------------ concurrent evaluations

MaxRaceEvals == 3
MaxRaceNow == 3

\* The evaluations begun so far.
Begun == Len(evalLog) + Cardinality({g \in Evaluators : evalPc[g] # "idle"})

RaceNext ==
    \/ cancel = "nil" /\ Start
    \/ /\ Begun < MaxRaceEvals
       /\ \E g \in Evaluators, br \in {Quiet, Surge}, order \in SessionOrders :
             evaluateRules(g, now, br, order)
    \/ \E g \in Evaluators : evaluateIsDuplicate(g)
    \/ \E g \in Evaluators : evaluateRecordFired(g)
    \/ \E g \in Evaluators : evaluateAppend(g)
    \/ Sleep(1, MaxRaceNow)

SpecRace == Init /\ [][RaceNext]_vars

\* The alerts of one key that a list holds with fire times in the dedup
\* window that starts at t.
InWindow(list, key, t) ==
    {i \in 1..Len(list) :
        /\ alertKey(list[i]) = key
        /\ list[i].FiredAt >= t
        /\ list[i].FiredAt - t < dedupTTL}

\* C30 (as claimed): with EvaluateNow or EvaluateAt running alongside the
\* periodic evaluator, the active list and the notifier get a key at most
\* once per dedup window.
C30_OncePerWindowWhenConcurrent ==
    \A k \in {alertKey(a) : a \in {alerts[i] : i \in 1..Len(alerts)}} : \A t \in 1..MaxRaceNow :
        /\ Cardinality(InWindow(alerts, k, t)) <= 1
        /\ Cardinality(InWindow(notified, k, t)) <= 1

\* ------------------------------------------------------------------ cancellation

MaxCancelScans == 2
MaxCancelEvals == 1

\* main in its order: the receivers, a scan, the periodic scanner, the alert
\* engine, then the TUI, during which the token may be cancelled and the
\* Stop methods called.
CancelNext ==
    \/ grpc = "none" /\ ReceiverStart
    \/ /\ grpc # "none" /\ scanLog = <<>>
       /\ \E infoOk \in SUBSET {4821} : ScanDiscover("rescan", infoOk, {})
    \/ ScanMerge("rescan")
    \/ scanLog # <<>> /\ scanLoop = "none" /\ StartPeriodicScan
    \/ /\ scanLoop = "running"
       /\ ~FirstScanDone \/ ScansBegun < MaxCancelScans
       /\ \E infoOk \in SUBSET {4821} : ScanDiscover("periodic", infoOk, {})
    \/ ScanMerge("periodic")
    \/ ScanLoopExit
    \/ scanLoop # "none" /\ cancel = "nil" /\ Start
    \/ /\ Len(evalLog) < MaxCancelEvals
       /\ \E order \in SessionOrders : EvaluatorTick(Quiet, order)
    \/ EvaluatorExit
    \/ cancel # "nil" /\ Cancel
    \/ cancel # "nil" /\ ReceiverStop
    \/ cancel # "nil" /\ ScannerStop
    \/ Spawn(4821)
    \/ Exit(4821)

\* The goroutines run: the evaluator and the scan loop take the case of
\* their select that stays ready, and a scan under way finishes.
SpecCancel ==
    /\ Init /\ [][CancelNext]_vars
    /\ WF_vars(EvaluatorExit)
    /\ WF_vars(ScanLoopExit)
    /\ WF_vars(ScanMerge("periodic"))

\* C23 (as claimed): once the token is cancelled, the receivers, the scan
\* loop and the evaluator all stop running.
C23_CancelStopsAll ==
    topDone ~> (/\ grpc # "serving" /\ http # "serving"
                /\ scanLoop # "running"
                /\ evaluator # "select")

\* ------------------------------------------------------------------ concurrent writers

MaxConcWrites == 3

PromptAttrs == [k \in {"prompt_length"} |-> "42"]

ConcCall(w) ==
    /\ Len(issued) < MaxConcWrites
    /\ \E sid \in {"s1", ""} :
          \/ AddMetricLock(w, sid, CostUsage, 2, NoAttrs, 1)
          \/ AddEventLock(w, sid, UserPrompt, PromptAttrs, 1)

ConcNext ==
    \/ \E w \in Writers :
          \/ ConcCall(w)
          \/ AddMetricBody(w)
          \/ AddEventBody(w)
          \/ AddEventNotify(w)
          \/ AddEventReturn(w)
    \/ \E l \in Listeners : OnEvent(l)

SpecConc == Init /\ [][ConcNext]_vars

\* What the store holds for a session id: metrics plus events.
Stored(sid) ==
    IF sid \in DOMAIN sessions
    THEN Len(sessions[sid].Metrics) + Len(sessions[sid].Events)
    ELSE 0

\* The add_metric and add_event calls made to a session id.
WritesTo(sid) == {i \in 1..Len(issued) : issued[i].sid = sid}

\* C4: once every call has returned, each session holds as many metrics plus
\* events as writes were made to it, whatever the interleaving of the writers.
C4_NoWriteLost ==
    (\A w \in Writers : pc[w] = "idle")
        => \A sid \in {"s1", "", UnknownSessionID} : Stored(sid) = Cardinality(WritesTo(sid))

\* C4 witness: both writers have written to one session, metrics and events,
\* and every call has returned.
C4_Witness ==
    /\ \A w \in Writers : pc[w] = "idle"
    /\ "s1" \in DOMAIN sessions
    /\ sessions["s1"].Metrics # <<>> /\ sessions["s1"].Events # <<>>
    /\ Stored("s1") = 3
    /\ \A w \in Writers : \E i \in WritesTo("s1") : issued[i].w = w

\* C5: no callback runs while its add_event holds the write lock; each
\* callback comes after the event was appended to the session of the resolved
\* id, and is given that id and that event.
C5_ListenersOutsideLock ==
    /\ \A w \in Writers : pc[w] = "notify" => mu # w
    /\ \A l \in Listeners : \A i \in 1..Len(delivered[l]) :
          LET d == delivered[l][i]
          IN  /\ ~d.held
              /\ d.sid # ""
              /\ d.sid \in DOMAIN sessions
              /\ \E k \in 1..Len(sessions[d.sid].Events) : sessions[d.sid].Events[k] = d.e
              /\ \E k \in 1..Len(issued) :
                    issued[k].op = "AddEvent" /\ issued[k].sid = d.sid /\ issued[k].x = d.e

\* C5 witness: an event sent with an empty session id has reached both
\* listeners under "unknown".
C5_Witness ==
    \A l \in Listeners :
        \E i \in 1..Len(delivered[l]) : delivered[l][i].sid = UnknownSessionID

\* Only w1 has made calls.
SingleWriter == \A i \in 1..Len(issued) : issued[i].w = "w1"

\* The place of a delivered callback's add_event call among the calls made.
CallOf(d) ==
    CHOOSE i \in 1..Len(issued) :
        issued[i].op = "AddEvent" /\ issued[i].sid = d.sid /\ issued[i].x = d.e

\* C6: with a single writer every listener receives its callbacks in the
\* order of the add_event calls, one callback per call.
C6_CallbacksInCallOrder ==
    SingleWriter =>
        \A l \in Listeners : \A i, j \in 1..Len(delivered[l]) :
            i < j => CallOf(delivered[l][i]) < CallOf(delivered[l][j])

\* C6 witness: a single writer, and a listener that has received three callbacks.
C6_Witness ==
    /\ SingleWriter
    /\ \E l \in Listeners : Len(delivered[l]) = 3

\* ------------------------------------------------------------------ snapshots

MaxSnapWrites == 2
MaxHeap == 5

ModelAttrs == [k \in {"model"} |-> "m1"]

SnapCall ==
    /\ Len(issued) < MaxSnapWrites
    /\ \/ \E v \in {2, 4} : AddMetricLock("w1", "s1", CostUsage, v, TypeInput, 1)
       \/ AddEventLock("w1", "s1", ApiRequest, ModelAttrs, 1)

SnapNext ==
    \/ SnapCall
    \/ AddMetricBody("w1")
    \/ AddEventBody("w1")
    \/ AddEventReturn("w1")
    \/ UpdatePID("s1", 1)
    \/ \E sid \in {"s1", "s2"} : Len(heap) < MaxHeap /\ GetSession(sid)
    \/ SnapSetTotalCost
    \/ SnapAppendMetric
    \/ SnapSetAttribute("type", "output")
    \/ SnapSetPrevious(metricKey(CostUsage, TypeInput), 6)

SpecSnap == Init /\ [][SnapNext]_vars

\* A session record with every map reference replaced by the map's contents.
Resolve(hp, s) ==
    [ s EXCEPT
        !.Metrics = [i \in 1..Len(s.Metrics) |->
                       [s.Metrics[i] EXCEPT !.Attributes = Deref(hp, s.Metrics[i].Attributes)]],
        !.Events = [i \in 1..Len(s.Events) |->
                      [s.Events[i] EXCEPT !.Attributes = Deref(hp, s.Events[i].Attributes)]],
        !.PreviousValues = Deref(hp, s.PreviousValues) ]

\* What a read of the store returns now.
StoreView == [sid \in DOMAIN sessions |-> Resolve(heap, sessions[sid])]

\* What the reader sees in the snapshot it holds.
SnapView == IF snap = Nil THEN Nil ELSE Resolve(heap, snap)

\* C3 (as claimed): a step of the reader on its snapshot changes nothing a
\* read of the store returns, and a step of the store changes nothing in the
\* snapshot the reader holds.
C3_SnapshotIndependent ==
    [][IF pc' = pc /\ sessions' = sessions
       THEN StoreView' = StoreView
       ELSE SnapView' = SnapView]_vars

\* ------------------------------------------------------------------ failing to bind

MaxReceiverStarts == 3

\* main starts the receiver, and may try again after a failure, while other
\* processes take and give up the two ports.
BindNext ==
    \/ \E port \in {GRPCPort, HTTPPort} : OtherBinds(port)
    \/ \E port \in {GRPCPort, HTTPPort} : OtherCloses(port)
    \/ /\ Len(startLog) < MaxReceiverStarts
       /\ grpc # "serving" /\ http # "serving"
       /\ ReceiverStart
    \/ startLog # <<>> /\ ReceiverStop

SpecBind == Init /\ [][BindNext]_vars

\* C37: a Receiver.Start that returns an error leaves neither server
\* serving, and when the error is the HTTP port's, the gRPC server, which
\* had bound, has been stopped.
C37_FailedStartStopsGrpc ==
    [][(Len(startLog') = Len(startLog) + 1 /\ startLog'[Len(startLog')].err # "") =>
          /\ grpc' # "serving" /\ http' # "serving"
          /\ startLog'[Len(startLog')].err = PortInUse(HTTPPort) => grpc' = "stopped"]_vars

\* C37 witness: the first Start failed on the HTTP port with the gRPC port
\* free, and the gRPC server is stopped.
C37_Witness ==
    /\ Len(startLog) = 1
    /\ startLog[1].err = PortInUse(HTTPPort)
    /\ GRPCPort \notin inUse
    /\ grpc = "stopped" /\ http = "none"

\* ------------------------------------------------------------------ the detail overlay and the cursors

MaxFeedEvents == 3
MaxFeedAlerts == 2

\* The keys pressed: the navigation keys, those that change the view, the
\* focus and the menus, and one no binding names.
CursorKeys == {"tab", "enter", "esc", "f", "a", "e", "up", "down", "pgdown", "q", "x"}

CursorNext ==
    \/ \E k \in CursorKeys : KeyMsg(k, 0)
    \/ \E sid \in {"s1", "s2"} : Len(feed.events) < MaxFeedEvents /\ EventArrives(sid)
    \/ Len(feed.alerts) < MaxFeedAlerts /\ AlertFires("s1")

SpecCursor == Init /\ [][CursorNext]_vars

\* The keys the open overlay acts on.
OverlayKeys == Escape \cup Enter \cup Up \cup Down \cup ScrollUp \cup ScrollDown

\* C39: while the detail overlay is open a key other than Esc, Enter and
\* the scroll keys leaves the model as it is: the view, the filter menu, the
\* focus and the cursors keep their values and the overlay stays open.
C39_OverlayBlocksOtherKeys ==
    [][(tuiModel.detailOverlay /\ lastKey' \notin OverlayKeys) => tuiModel' = tuiModel]_vars

\* C39 witness: the overlay is open in the dashboard and the last key was
\* Tab: the overlay was open when Tab came, and the view did not change.
C39_Witness ==
    /\ tuiModel.detailOverlay
    /\ lastKey \in Tab
    /\ tuiModel.view = "dashboard" /\ ~tuiModel.filterMenuActive

\* The cursor is on an entry of a list of n entries, if the list has any.
OnEntry(cursor, n) == n > 0 => (cursor >= 0 /\ cursor <= n - 1)

\* C40 (as claimed): the event cursor and the alert cursor are on an entry
\* of the list shown now whenever that list has entries, and Up at the
\* first entry and Down at the last leave the cursor where it is.
C40_CursorsInRange ==
    /\ [](/\ OnEntry(tuiModel.eventCursor, Len(getFilteredEvents(tuiModel, feed)))
          /\ OnEntry(tuiModel.alertCursor, Len(getActiveAlerts(tuiModel, feed))))
    /\ [][/\ (lastKey' \in Up /\ tuiModel.eventCursor = 0) => tuiModel'.eventCursor = 0
          /\ (lastKey' \in Up /\ tuiModel.alertCursor = 0) => tuiModel'.alertCursor = 0
          /\ (lastKey' \in Down /\ tuiModel.panelFocus = "events"
                /\ tuiModel.eventCursor = Len(getFilteredEvents(tuiModel, feed)) - 1)
                => tuiModel'.eventCursor = tuiModel.eventCursor
          /\ (lastKey' \in Down /\ tuiModel.panelFocus = "alerts"
                /\ tuiModel.alertCursor = Len(getActiveAlerts(tuiModel, feed)) - 1)
                => tuiModel'.alertCursor = tuiModel.alertCursor]_vars

====
